---- MODULE Spec2Model ----
(***************************************************************************)
(* State-machine model of the FileTransferApp transfer engine             *)
(* ("python code/" tree): the TCP accept loop and its transfer-active     *)
(* flag, the folder sender (send_folder_task), the folder receiver        *)
(* (handle_client_folder_transfer) over a byte stream, the header reader  *)
(* (read_header_from_socket), the path sanitizer and the handshake.       *)
(*                                                                         *)
(* Bytes are one-character strings; byte strings are sequences of them.   *)
(***************************************************************************)
EXTENDS Integers, Sequences, FiniteSets, TLC

(***************************************************************************)
(* Bounds of the model (not program constants).                           *)
(***************************************************************************)
MaxChunk == 2
MaxConn == 3
MaxPathLen == 4
SendCapacity == 192

(***************************************************************************)
(* config.py                                                               *)
(***************************************************************************)
FILE_TRANSFER_PORTS == << 5001, 5002, 5003, 5004, 5005 >>
DISCOVERY_MESSAGE == <<"F","I","N","D","_","F","I","L","E","_","S","E","R","V","E","R","_","X","Y","Z">>
SERVER_RESPONSE_BASE == <<"I","M","_","F","I","L","E","_","S","E","R","V","E","R","_","X","Y","Z">>
BUFFER_SIZE_FOR_HEADER == 2048
HEADER_SEPARATOR == "|"
FOLDER_PROTOCOL_PREFIX == <<"F","D","R","_","V","1">>
FOLDER_HEADER_TYPE_FOLDER == <<"F","O","L","D","E","R">>
FOLDER_HEADER_TYPE_FILE == <<"F","I","L","E">>
FOLDER_HEADER_TYPE_END_TRANSFER == <<"E","N","D","_","T","R","A","N","S","F","E","R">>
FOLDER_HEADER_TYPE_TOTAL_INFO == <<"T","O","T","A","L","_","I","N","F","O">>
TOTAL_INFO_COUNT_SIZE_SEPARATOR == ","
HANDSHAKE_REQUEST_SIGNAL ==
    <<"I","S","_","T","R","A","N","S","F","E","R","_","C","O","M","P","L","E","T","E","?">>
HANDSHAKE_COMPLETE_OK_SIGNAL ==
    <<"T","R","A","N","S","F","E","R","_","C","O","M","P","L","E","T","E","_","O","K">>
HANDSHAKE_ERROR_SIGNAL ==
    <<"T","R","A","N","S","F","E","R","_","E","R","R","O","R">>
TEST_FILE_SIZE == 104857600
HANDSHAKE_READ_BUFFER_SIZE == 1024

(***************************************************************************)
(* Byte-string helpers (bytes.find, slicing, startswith, strip, split).   *)
(***************************************************************************)
\* bytes.find(sep): 1-based index of the first occurrence, 0 when absent
Find(buf, ch) ==
    LET hits == {i \in DOMAIN buf : buf[i] = ch}
    IN  IF hits = {} THEN 0 ELSE CHOOSE i \in hits : \A j \in hits : i <= j

Slice(s, a, b) == IF a > b THEN << >> ELSE SubSeq(s, a, b)

Drop(s, n) == Slice(s, n + 1, Len(s))

Take(s, n) == Slice(s, 1, IF n < Len(s) THEN n ELSE Len(s))

StartsWith(s, p) == Len(s) >= Len(p) /\ SubSeq(s, 1, Len(p)) = p

EndsWith(s, p) == Len(s) >= Len(p) /\ SubSeq(s, Len(s) - Len(p) + 1, Len(s)) = p

\* b1 in b2 (contiguous sub-sequence)
Contains(s, p) == \E i \in 1..(Len(s) - Len(p) + 1) : SubSeq(s, i, i + Len(p) - 1) = p

Whitespace == {" "}

RECURSIVE LStrip(_, _)
LStrip(s, cs) == IF s # << >> /\ s[1] \in cs THEN LStrip(Tail(s), cs) ELSE s

RECURSIVE RStrip(_, _)
RStrip(s, cs) ==
    IF s # << >> /\ s[Len(s)] \in cs THEN RStrip(SubSeq(s, 1, Len(s) - 1), cs) ELSE s

\* bytes.strip() / str.strip()
Strip(s) == LStrip(RStrip(s, Whitespace), Whitespace)

RECURSIVE Split(_, _)
\* str.split(ch): always at least one part
Split(s, ch) ==
    LET i == Find(s, ch)
    IN  IF i = 0 THEN << s >>
        ELSE << Slice(s, 1, i - 1) >> \o Split(Drop(s, i), ch)

RECURSIVE Join(_, _)
\* ch.join(parts)
Join(parts, ch) ==
    IF parts = << >> THEN << >>
    ELSE IF Len(parts) = 1 THEN parts[1]
    ELSE parts[1] \o << ch >> \o Join(Tail(parts), ch)

RECURSIVE ReplaceCh(_, _, _)
\* str.replace(a, b) for single characters
ReplaceCh(s, a, b) ==
    IF s = << >> THEN << >>
    ELSE << (IF s[1] = a THEN b ELSE s[1]) >> \o ReplaceCh(Tail(s), a, b)

(***************************************************************************)
(* Decimal text: str(int) and int(str).                                    *)
(***************************************************************************)
DigitChars == <<"0","1","2","3","4","5","6","7","8","9">>

DigitSet == {DigitChars[i] : i \in 1..10}

DigitVal(c) == (CHOOSE i \in 1..10 : DigitChars[i] = c) - 1

RECURSIVE NatToStr(_)
NatToStr(n) ==
    IF n < 10 THEN << DigitChars[n + 1] >>
    ELSE NatToStr(n \div 10) \o << DigitChars[(n % 10) + 1] >>

\* str(n)
IntToStr(n) == IF n < 0 THEN << "-" >> \o NatToStr(0 - n) ELSE NatToStr(n)

RECURSIVE DigitsVal(_, _)
DigitsVal(s, acc) ==
    IF s = << >> THEN acc ELSE DigitsVal(Tail(s), acc * 10 + DigitVal(s[1]))

\* int(s): surrounding whitespace and one leading sign are accepted;
\* anything else raises ValueError (ok = FALSE)
ParseInt(s0) ==
    LET s == Strip(s0)
        neg == s # << >> /\ s[1] = "-"
        body == IF s # << >> /\ s[1] \in {"-", "+"} THEN Tail(s) ELSE s
    IN  IF body = << >> \/ \E i \in 1..Len(body) : body[i] \notin DigitSet
        THEN [ok |-> FALSE, v |-> 0]
        ELSE [ok |-> TRUE, v |-> IF neg THEN 0 - DigitsVal(body, 0) ELSE DigitsVal(body, 0)]

(***************************************************************************)
(* os.path (POSIX flavour) on character sequences.                         *)
(***************************************************************************)
RECURSIVE NormComps(_, _, _)
\* the component loop of posixpath.normpath
NormComps(comps, new_comps, initial_slashes) ==
    IF comps = << >> THEN new_comps
    ELSE LET comp == comps[1]
             DotDot == << ".", "." >>
         IN  IF comp = << >> \/ comp = << "." >>
             THEN NormComps(Tail(comps), new_comps, initial_slashes)
             ELSE IF comp # DotDot
                     \/ (initial_slashes = 0 /\ new_comps = << >>)
                     \/ (new_comps # << >> /\ new_comps[Len(new_comps)] = DotDot)
             THEN NormComps(Tail(comps), Append(new_comps, comp), initial_slashes)
             ELSE IF new_comps # << >>
             THEN NormComps(Tail(comps), SubSeq(new_comps, 1, Len(new_comps) - 1), initial_slashes)
             ELSE NormComps(Tail(comps), new_comps, initial_slashes)

\* os.path.normpath(path)
normpath(path) ==
    IF path = << >> THEN << "." >>
    ELSE LET initial_slashes ==
                 IF ~StartsWith(path, << "/" >>) THEN 0
                 ELSE IF StartsWith(path, << "/", "/" >>) /\ ~StartsWith(path, << "/", "/", "/" >>)
                      THEN 2 ELSE 1
             joined == Join(NormComps(Split(path, "/"), << >>, initial_slashes), "/")
             res == (IF initial_slashes = 0 THEN << >>
                     ELSE IF initial_slashes = 1 THEN << "/" >> ELSE << "/", "/" >>) \o joined
         IN  IF res = << >> THEN << "." >> ELSE res

\* os.path.normpath(raw).replace('\\', '/')
NormProtocolPath(raw) == ReplaceCh(normpath(raw), "\\", "/")

\* Absolute local paths are kept as sequences of segments below the
\* filesystem root; os.path.normpath on such a path.
NormSegs(segs) == NormComps(segs, << >>, 1)

\* os.path.commonpath([base, p]) == base, for normalized absolute paths
IsWithin(base, p) == Len(p) >= Len(base) /\ SubSeq(p, 1, Len(base)) = base

\* os.path.dirname of an absolute segment path
dirname(p) == IF p = << >> THEN << >> ELSE SubSeq(p, 1, Len(p) - 1)

RECURSIVE RFind(_, _, _)
RFind(s, ch, i) == IF i < 1 THEN 0 ELSE IF s[i] = ch THEN i ELSE RFind(s, ch, i - 1)

\* os.path.splitext on the last segment: [base, ext]
splitext(name) ==
    LET i == RFind(name, ".", Len(name))
        lead == Len(name) - Len(LStrip(name, {"."}))
    IN  IF i > lead + 1 /\ i >= 1
        THEN [base |-> Slice(name, 1, i - 1), ext |-> Slice(name, i, Len(name))]
        ELSE [base |-> name, ext |-> << >>]

(***************************************************************************)
(* utils.sanitize_filename_part / utils.sanitize_path                      *)
(***************************************************************************)
LowerChars == {"a","b","c","d","e","f","g","h","i","j","k","l","m",
               "n","o","p","q","r","s","t","u","v","w","x","y","z"}
UpperChars == {"A","B","C","D","E","F","G","H","I","J","K","L","M",
               "N","O","P","Q","R","S","T","U","V","W","X","Y","Z"}
\* \w
WordChars == LowerChars \cup UpperChars \cup DigitSet \cup {"_"}
\* the character range  \.-_  (0x2E .. 0x5F) inside the class [^\w\s\.-_]
RangeDotToUnderscore ==
    {".", "/", ":", ";", "<", "=", ">", "?", "@", "[", "\\", "]", "^", "_"}
        \cup DigitSet \cup UpperChars

RegexKept(c) == c \in WordChars \cup Whitespace \cup RangeDotToUnderscore

RECURSIVE SubBadChars(_)
\* re.sub(r'[^\w\s\.-_]', '_', part)
SubBadChars(s) ==
    IF s = << >> THEN << >>
    ELSE << (IF RegexKept(s[1]) THEN s[1] ELSE "_") >> \o SubBadChars(Tail(s))

\* utils.sanitize_filename_part(part); ok = FALSE stands for ValueError
sanitize_filename_part(part) ==
    IF part = << >> THEN [ok |-> TRUE, v |-> << >>]
    ELSE IF part = << "." >> \/ part = << ".", "." >> THEN [ok |-> FALSE, v |-> << >>]
    ELSE LET s1 == ReplaceCh(SubBadChars(part), " ", "_")
             s2 == LStrip(s1, {"."})
             s3 == RStrip(s2, Whitespace \cup {"."})
         IN  IF s3 = << >> THEN [ok |-> FALSE, v |-> << >>]
             ELSE [ok |-> TRUE, v |-> s3]

RECURSIVE SanitizeParts(_, _, _)
\* the loop over parts_protocol in sanitize_path: [ok, parts]
SanitizeParts(parts, i, acc) ==
    IF i > Len(parts) THEN [ok |-> TRUE, parts |-> acc]
    ELSE LET part == parts[i]
         IN  IF i = Len(parts) /\ part = << >> /\ Len(parts) > 1
             THEN SanitizeParts(parts, i + 1, Append(acc, << >>))
             ELSE IF part = << "." >> \/ part = << ".", "." >>
             THEN [ok |-> FALSE, parts |-> << >>]
             ELSE IF part = << >>
             THEN SanitizeParts(parts, i + 1, acc)
             ELSE LET r == sanitize_filename_part(part)
                  IN  IF ~r.ok THEN [ok |-> FALSE, parts |-> << >>]
                      ELSE SanitizeParts(parts, i + 1, Append(acc, r.v))

BaseMeaning == { << >>, << "." >>, << "/" >> }

\* sanitize_path without its rejections: the parts are joined as they come
sanitize_path_unchecked(base_dir, relative_path) ==
    [ok |-> TRUE, path |-> NormSegs(base_dir \o Split(relative_path, "/"))]

\* utils.sanitize_path(base_dir, relative_path); base_dir is an absolute
\* normalized segment path; ok = FALSE stands for ValueError
sanitize_path(base_dir, relative_path) ==
    LET sp == SanitizeParts(Split(relative_path, "/"), 1, << >>)
        normalized_full_path == NormSegs(base_dir \o sp.parts)
        base_dir_abs_norm == NormSegs(base_dir)
    IN  IF ~sp.ok THEN [ok |-> FALSE, path |-> << >>]
        ELSE IF sp.parts = << >> /\ Strip(relative_path) \notin BaseMeaning
        THEN [ok |-> FALSE, path |-> << >>]
        ELSE IF ~IsWithin(base_dir_abs_norm, normalized_full_path)
        THEN [ok |-> FALSE, path |-> << >>]
        ELSE IF Strip(relative_path) \notin BaseMeaning
                /\ normalized_full_path = base_dir_abs_norm
        THEN [ok |-> FALSE, path |-> << >>]
        ELSE [ok |-> TRUE, path |-> normalized_full_path]

(***************************************************************************)
(* State.                                                                  *)
(*                                                                         *)
(* One folder connection: the sender's bytes (wire), how many of them the  *)
(* receiver has taken with recv (recvd), the receiver's bytes (back), the  *)
(* two cancellation tokens, the receiver's filesystem, the locals of      *)
(* handle_client_folder_transfer (rh) and of send_folder_task (sh).        *)
(* The dispatcher: the accept loop's position, the GUI's                   *)
(* is_transfer_active flag, the Tk event queue and the handler threads.    *)
(***************************************************************************)
VARIABLES
    wire,           \* bytes the sender has written to the connection, in order
    recvd,          \* number of bytes of wire the receiver's recv calls returned
    peer_closed,    \* the sender has closed its end of the connection
    back,           \* bytes the receiver has written to the connection
    back_read,      \* number of bytes of back the sender's recv calls returned
    sock_closed,    \* the receiver has closed its end of the connection
    r_cancel,       \* receiver side cancel_transfer_event
    s_cancel,       \* sender side cancel_transfer_event
    fs_dirs,        \* directories existing on the receiver
    fs_files,       \* files existing on the receiver: path -> content
    rh,             \* locals of handle_client_folder_transfer
    fh,             \* locals of handle_client_connection (single file)
    disc,           \* the server's TCP socket, the GUI's port attribute, the discovery listener
    dclient,        \* locals of discover_file_server_task
    rlog,           \* headers the receiver accepted (its DEBUG trace)
    sh,             \* locals of send_folder_task
    source,         \* the folder tree given to send_folder_task
    srv_pc,         \* position of run_tcp_server_task's accept loop
    is_transfer_active, \* Application.is_transfer_active
    gui_queue,      \* callbacks scheduled with root.after(0, ...), FIFO
    pending,        \* connections waiting in the listen queue
    handlers        \* handler threads started so far: "running" / "finished"

vars == << wire, recvd, peer_closed, back, back_read, sock_closed, r_cancel, s_cancel,
           fs_dirs, fs_files, rh, fh, disc, dclient, rlog, sh, source,
           srv_pc, is_transfer_active, gui_queue, pending, handlers >>

connVars == << wire, recvd, peer_closed, back, back_read, sock_closed >>
srvVars == << srv_pc, is_transfer_active, gui_queue, pending, handlers >>
fsVars == << fs_dirs, fs_files >>

(***************************************************************************)
(* handle_client_folder_transfer: constants and helpers                    *)
(***************************************************************************)
STATE_WAITING_FOR_ROOT_FOLDER_HEADER == 0
STATE_WAITING_FOR_TOTAL_INFO_HEADER == 1
STATE_WAITING_FOR_ITEM_HEADER == 2
STATE_RECEIVING_FILE_DATA == 3
STATE_WAITING_FOR_HANDSHAKE_REQUEST == 4
STATE_HANDSHAKE_COMPLETE == 5

\* Python's None for total_expected_items / total_expected_size
None == -2
\* the value the handler stores when TOTAL_INFO was skipped
Skipped == -1
\* None for current_file_path / current_save_dir
NoPath == << >>

\* bytes that are not valid UTF-8 (bytes.decode raises on them)
NonUtf8Bytes == {"~"}

\* os.path.abspath("received_folders")
save_dir_base == <<"r","e","c","e","i","v","e","d","_","f","o","l","d","e","r","s">>
received_files_base_abs == << <<"c","w","d">>, save_dir_base >>

\* f"received_folder_{int(time.time())}" and its variants
RootFallbackName == <<"r","e","c","e","i","v","e","d","_","f","o","l","d","e","r","_","0">>

SanitizationErrorSuffix == <<"_","s","a","n","i","t","i","z","a","t","i","o","n","_","e","r","r","o","r">>

\* default receive buffer size of the accept loop
receive_buffer_size == 65536

Min(a, b) == IF a < b THEN a ELSE b

Sep == << HEADER_SEPARATOR >>

\* header_buffer[separator_index + len(header_sep_bytes):]
remaining_buffer(header_buffer, separator_index) == Drop(header_buffer, separator_index)

\* read_header_from_socket once the separator is in the buffer:
\* [ok, token, rest]; ok = FALSE is the ValueError of a failed decode
read_header(header_buffer) ==
    LET separator_index == Find(header_buffer, HEADER_SEPARATOR)
        header_bytes == Slice(header_buffer, 1, separator_index - 1)
    IN  [ok |-> \A i \in 1..Len(header_bytes) : header_bytes[i] \notin NonUtf8Bytes,
         token |-> header_bytes,
         rest |-> remaining_buffer(header_buffer, separator_index)]

HasSep(buf) == Find(buf, HEADER_SEPARATOR) > 0

\* sizes a recv of at most `limit` bytes may return when the bytes of `data`
\* after position `pos` are there: a short piece, all there is, or a piece
\* ending with a separator
ChunkSizesOf(data, pos, limit) ==
    {k \in 1..Min(Len(data) - pos, limit) :
        \/ k <= MaxChunk
        \/ k = Min(Len(data) - pos, limit)
        \/ data[pos + k] = HEADER_SEPARATOR}

WireAvail == Len(wire) - recvd

WireChunkSizes(limit) == ChunkSizesOf(wire, recvd, limit)

exists(p) == p \in fs_dirs \/ p \in DOMAIN fs_files
isdir(p) == p \in fs_dirs

Prefixes(p) == {SubSeq(p, 1, n) : n \in 1..Len(p)}

\* os.makedirs(p, exist_ok=True) raises when p or an ancestor is a file
MakedirsFails(p) == \E q \in Prefixes(p) : q \in DOMAIN fs_files

\* f"{original_base}_{counter}{ext}" on the last segment of the path
Renamed(p, counter) ==
    LET se == splitext(p[Len(p)])
    IN  Append(dirname(p), se.base \o << "_" >> \o IntToStr(counter) \o se.ext)

\* the collision test made once: the name numbered 1 is taken as free
UniqueFilePath_first_rename(p) == IF ~exists(p) THEN p ELSE Renamed(p, 1)

\* the collision loop: the path itself, or the first free numbered name;
\* NoPath when 10000 attempts are exceeded
UniqueFilePath(p) ==
    IF ~exists(p) THEN p
    ELSE IF \A c \in 1..10000 : exists(Renamed(p, c)) THEN NoPath
    ELSE Renamed(p, CHOOSE c \in 1..10000 :
                        ~exists(Renamed(p, c)) /\ \A d \in 1..(c - 1) : exists(Renamed(p, d)))

\* the single-file handler's collision loop, run after os.makedirs has made
\* the directories `made`: os.path.exists is true of them as well
UniqueFilePathAfterMakedirs(made, p) ==
    LET ex(q) == q \in made \/ exists(q)
    IN  IF ~ex(p) THEN p
        ELSE IF \A c \in 1..10000 : ex(Renamed(p, c)) THEN NoPath
        ELSE Renamed(p, CHOOSE c \in 1..10000 :
                            ~ex(Renamed(p, c)) /\ \A d \in 1..(c - 1) : ex(Renamed(p, d)))

\* close_current_file()
close_current_file(h) ==
    IF h.current_file_handle
    THEN [h EXCEPT !.current_file_handle = FALSE, !.current_file_path = NoPath]
    ELSE h

\* an error path that answers TRANSFER_ERROR instead of closing silently
Raise_with_reply(h, e) ==
    [h EXCEPT !.is_cancelled = TRUE, !.transfer_success = FALSE, !.exc = e,
              !.current_state = STATE_WAITING_FOR_HANDSHAKE_REQUEST, !.pc = "hs"]

\* an exception raised inside the main loop: the inner except re-raises it,
\* the outer except records the failure, control reaches the finally block
Raise(h, e) ==
    [close_current_file(h) EXCEPT
        !.is_cancelled = (IF e = "CancelledError" THEN @ ELSE TRUE),
        !.transfer_success = FALSE,
        !.exc = e,
        !.pc = "finally"]

\* the verification without the comparison of the byte totals
verification_passed_count_only(h) ==
    ~( h.total_expected_items = None \/ h.total_expected_size = None
       \/ h.total_expected_items < 0 \/ h.total_expected_size < 0
       \/ h.items_received_count # h.total_expected_items )

\* the verification waived when no TOTAL_INFO header supplied the totals
verification_passed_unless_unknown(h) ==
    \/ h.total_expected_items < 0 \/ h.total_expected_size < 0
    \/ /\ h.items_received_count = h.total_expected_items
       /\ h.received_bytes_total = h.total_expected_size

\* the Count/Size verification done when END_TRANSFER is processed
verification_passed(h) ==
    ~( h.total_expected_items = None \/ h.total_expected_size = None
       \/ h.total_expected_items < 0 \/ h.total_expected_size < 0
       \/ h.items_received_count # h.total_expected_items
       \/ h.received_bytes_total # h.total_expected_size )

\* the path of an item relative to the session root: [ok, rel]
path_relative_to_session_root(item_path_raw, session_root_name) ==
    LET normalized_item_path == NormProtocolPath(item_path_raw)
        clean == RStrip(NormProtocolPath(session_root_name), {"/"})
        style == clean \o << "/" >>
    IN  IF StartsWith(normalized_item_path, style)
        THEN [ok |-> TRUE, rel |-> Drop(normalized_item_path, Len(style))]
        ELSE IF normalized_item_path = clean
        THEN [ok |-> TRUE, rel |-> << >>]
        ELSE [ok |-> FALSE, rel |-> << >>]

RECURSIVE FirstNamePart(_)
\* first part of the split root path that is neither empty, '.' nor '..'
FirstNamePart(parts) ==
    IF parts = << >> THEN << >>
    ELSE IF parts[1] # << >> /\ parts[1] # << "." >> /\ parts[1] # << ".", "." >>
    THEN parts[1]
    ELSE FirstNamePart(Tail(parts))

\* the sanitized root name derived from the first FOLDER header's path
sanitized_root_name(first_item_path_raw) ==
    LET name0 == FirstNamePart(Split(NormProtocolPath(first_item_path_raw), "/"))
        name == IF name0 = << >> THEN RootFallbackName ELSE name0
        r == sanitize_filename_part(name)
    IN  IF ~r.ok THEN RootFallbackName \o SanitizationErrorSuffix
        ELSE IF r.v = << >> THEN RootFallbackName
        ELSE r.v

LogEntry(kind, raw, path, n, m, off) ==
    [kind |-> kind, raw |-> raw, path |-> path, n |-> n, m |-> m, off |-> off]

\* position in the stream of the first byte the receiver has not consumed
StreamPos(h) == recvd - Len(h.received_buffer)

(***************************************************************************)
(* handle_client_folder_transfer: one action per step of the main loop.    *)
(* rh.pc is the handler's position:                                        *)
(*   "accepted"  connection accepted, protocol not yet sniffed             *)
(*   "loop"      at the test of the main while loop                        *)
(*   "prefix" "type" "path" "tidata" "size"                                *)
(*               inside read_header_from_socket for that header segment    *)
(*   "filedata"  inside the file data loop                                 *)
(*   "hs"        about to call perform_folder_handshake_server             *)
(*   "after_loop" "finally" "done" "file_handler" "refused"                *)
(***************************************************************************)
HeaderPcs == {"prefix", "type", "path", "tidata", "size"}

rhInit ==
    [pc |-> "accepted", exc |-> "none", reply |-> "none",
     received_buffer |-> << >>,
     current_state |-> STATE_WAITING_FOR_ROOT_FOLDER_HEADER,
     items_received_count |-> 0, received_bytes_total |-> 0,
     total_expected_items |-> None, total_expected_size |-> None,
     current_file_bytes_expected |-> 0, current_file_bytes_received |-> 0,
     current_file_handle |-> FALSE, current_file_path |-> NoPath,
     header_type_segment |-> << >>, item_path_raw |-> << >>,
     path_for_sanitization |-> << >>,
     is_cancelled |-> FALSE, transfer_success |-> FALSE,
     session_root_name |-> << >>, current_save_dir |-> NoPath]

rFrame == << wire, peer_closed, back_read, r_cancel, s_cancel, sh, source, fh, disc, dclient,
             srv_pc, is_transfer_active, pending >>
rFrameSniff == << wire, peer_closed, back_read, r_cancel, s_cancel, sh, source, fh, disc, dclient,
                  is_transfer_active, pending >>

\* the accept loop's protocol sniff on the accepted connection and the
\* start of the handler thread with the sniffed bytes as initial_buffer
SniffData(k) ==
    /\ rh.pc = "accepted" /\ srv_pc = "sniff"
    /\ k \in WireChunkSizes(BUFFER_SIZE_FOR_HEADER)
    /\ LET initial_buffer == SubSeq(wire, recvd + 1, recvd + k)
       IN  /\ recvd' = recvd + k
           /\ rh' = [rh EXCEPT
                  !.received_buffer = initial_buffer,
                  !.pc = IF StartsWith(initial_buffer, FOLDER_PROTOCOL_PREFIX \o Sep)
                         THEN "loop" ELSE "file_handler"]
    /\ handlers' = Append(handlers, "running")
    /\ srv_pc' = "check"
    /\ UNCHANGED << rFrameSniff, back, sock_closed, fs_dirs, fs_files, rlog, gui_queue >>

Sniff == \E k \in WireChunkSizes(BUFFER_SIZE_FOR_HEADER) : SniffData(k)

\* the whole announced stream is returned by the sniff's single recv
SniffWhole == WireAvail > 0 /\ SniffData(WireAvail)

\* the sniff times out or finds the connection closed: no handler is started
SniffFailed ==
    /\ rh.pc = "accepted" /\ srv_pc = "sniff" /\ WireAvail = 0
    /\ rh' = [rh EXCEPT !.pc = "refused"]
    /\ sock_closed' = TRUE
    /\ gui_queue' = Append(gui_queue, "on_transfer_finished")
    /\ srv_pc' = "check"
    /\ UNCHANGED << rFrameSniff, recvd, back, fs_dirs, fs_files, rlog, handlers >>

\* a main loop whose test does not read the cancellation token
RLoop_without_token_test ==
    /\ rh.pc = "loop"
    /\ rh' = IF rh.current_state = STATE_HANDSHAKE_COMPLETE
             THEN [rh EXCEPT !.pc = "after_loop"]
             ELSE IF rh.current_state = STATE_RECEIVING_FILE_DATA
             THEN [rh EXCEPT !.pc = "filedata"]
             ELSE IF rh.current_state = STATE_WAITING_FOR_HANDSHAKE_REQUEST
             THEN [rh EXCEPT !.pc = "hs"]
             ELSE [rh EXCEPT !.pc = "prefix"]
    /\ UNCHANGED << rFrame, recvd, back, sock_closed, fs_dirs, fs_files, rlog,
                    gui_queue, handlers >>

\* test of the main while loop and dispatch on current_state
RLoop ==
    /\ rh.pc = "loop"
    /\ rh' = IF r_cancel
             THEN [rh EXCEPT !.is_cancelled = TRUE, !.transfer_success = FALSE,
                             !.pc = "finally"]
             ELSE IF rh.current_state = STATE_HANDSHAKE_COMPLETE
             THEN [rh EXCEPT !.pc = "after_loop"]
             ELSE IF rh.current_state = STATE_RECEIVING_FILE_DATA
             THEN [rh EXCEPT !.pc = "filedata"]
             ELSE IF rh.current_state = STATE_WAITING_FOR_HANDSHAKE_REQUEST
             THEN [rh EXCEPT !.pc = "hs"]
             ELSE [rh EXCEPT !.pc = "prefix"]
    /\ UNCHANGED << rFrame, recvd, back, sock_closed, fs_dirs, fs_files, rlog,
                    gui_queue, handlers >>

\* after the loop ended with the handshake complete: the token is read again
RAfterLoop ==
    /\ rh.pc = "after_loop"
    /\ rh' = IF r_cancel
             THEN [rh EXCEPT !.is_cancelled = TRUE, !.transfer_success = FALSE,
                             !.pc = "finally"]
             ELSE [rh EXCEPT !.pc = "finally"]
    /\ UNCHANGED << rFrame, recvd, back, sock_closed, fs_dirs, fs_files, rlog,
                    gui_queue, handlers >>

(***************************************************************************)
(* read_header_from_socket while no separator is in the buffer             *)
(***************************************************************************)
max_buffer == BUFFER_SIZE_FOR_HEADER * 4

header_chunk_size(buf) ==
    IF buf = << >> THEN Min(BUFFER_SIZE_FOR_HEADER, max_buffer)
    ELSE Min(4096, max_buffer - Len(buf))

RHeaderWaiting == rh.pc \in HeaderPcs /\ ~HasSep(rh.received_buffer)

RHeaderCancel ==
    /\ RHeaderWaiting /\ r_cancel
    /\ rh' = Raise(rh, "CancelledError")
    /\ UNCHANGED << rFrame, recvd, back, sock_closed, fs_dirs, fs_files, rlog,
                    gui_queue, handlers >>

RHeaderRecv ==
    /\ RHeaderWaiting /\ ~r_cancel /\ WireAvail > 0
    /\ IF header_chunk_size(rh.received_buffer) <= 0
       THEN rh' = Raise(rh, "ValueError") /\ UNCHANGED recvd
       ELSE \E k \in WireChunkSizes(header_chunk_size(rh.received_buffer)) :
              LET header_buffer == rh.received_buffer \o SubSeq(wire, recvd + 1, recvd + k)
              IN  /\ recvd' = recvd + k
                  /\ rh' = IF ~HasSep(header_buffer) /\ Len(header_buffer) > max_buffer
                           THEN Raise([rh EXCEPT !.received_buffer = header_buffer], "ValueError")
                           ELSE [rh EXCEPT !.received_buffer = header_buffer]
    /\ UNCHANGED << rFrame, back, sock_closed, fs_dirs, fs_files, rlog,
                    gui_queue, handlers >>

\* recv returns b"": the peer closed the connection
RHeaderPeerClosed ==
    /\ RHeaderWaiting /\ ~r_cancel /\ WireAvail = 0 /\ peer_closed
    /\ rh' = Raise(rh, IF rh.received_buffer = << >>
                       THEN "ConnectionResetError" ELSE "ValueError")
    /\ UNCHANGED << rFrame, recvd, back, sock_closed, fs_dirs, fs_files, rlog,
                    gui_queue, handlers >>

\* nothing arrives until the header timeout expires
RHeaderTimeout ==
    /\ RHeaderWaiting /\ ~r_cancel /\ WireAvail = 0 /\ ~peer_closed
    /\ rh' = Raise(rh, "timeout")
    /\ UNCHANGED << rFrame, recvd, back, sock_closed, fs_dirs, fs_files, rlog,
                    gui_queue, handlers >>

(***************************************************************************)
(* A complete header segment is in the buffer: the handler's reaction.     *)
(***************************************************************************)
rQuiet == << rFrame, recvd, back, sock_closed, gui_queue, handlers >>

\* the first segment of a header: the protocol prefix, or the handshake
\* request signal
RPrefix ==
    /\ rh.pc = "prefix" /\ HasSep(rh.received_buffer)
    /\ LET r == read_header(rh.received_buffer)
           h1 == [rh EXCEPT !.received_buffer = r.rest]
           is_request == Strip(r.token) = Strip(HANDSHAKE_REQUEST_SIGNAL)
       IN  IF ~r.ok THEN rh' = Raise(rh, "ValueError") /\ UNCHANGED rlog
           ELSE IF is_request /\ rh.current_state = STATE_WAITING_FOR_ROOT_FOLDER_HEADER
           THEN /\ rh' = Raise([h1 EXCEPT !.received_buffer = HANDSHAKE_REQUEST_SIGNAL \o r.rest],
                               "ValueError")
                /\ UNCHANGED rlog
           ELSE IF is_request /\ rh.current_state = STATE_WAITING_FOR_TOTAL_INFO_HEADER
           THEN /\ rh' = [h1 EXCEPT !.received_buffer = HANDSHAKE_REQUEST_SIGNAL \o r.rest,
                                    !.current_state = STATE_WAITING_FOR_HANDSHAKE_REQUEST,
                                    !.pc = "loop"]
                /\ rlog' = Append(rlog, LogEntry("HSREQ", r.token, NoPath, 0, 0, StreamPos(h1)))
           ELSE IF is_request
           THEN /\ rh' = [h1 EXCEPT !.current_state = STATE_WAITING_FOR_HANDSHAKE_REQUEST,
                                    !.pc = "loop"]
                /\ rlog' = Append(rlog, LogEntry("HSREQ", r.token, NoPath, 0, 0, StreamPos(h1)))
           ELSE IF r.token # FOLDER_PROTOCOL_PREFIX
           THEN rh' = Raise(h1, "ValueError") /\ UNCHANGED rlog
           ELSE rh' = [h1 EXCEPT !.pc = "type"] /\ UNCHANGED rlog
    /\ UNCHANGED << rQuiet, fs_dirs, fs_files >>

ItemTypes == {FOLDER_HEADER_TYPE_FOLDER, FOLDER_HEADER_TYPE_FILE}

\* the second segment: the header type
RType ==
    /\ rh.pc = "type" /\ HasSep(rh.received_buffer)
    /\ LET r == read_header(rh.received_buffer)
           h1 == [rh EXCEPT !.received_buffer = r.rest, !.header_type_segment = r.token]
       IN  IF ~r.ok THEN rh' = Raise(rh, "ValueError") /\ UNCHANGED rlog
           ELSE IF rh.current_state = STATE_WAITING_FOR_ROOT_FOLDER_HEADER
           THEN rh' = [h1 EXCEPT !.pc = "path"] /\ UNCHANGED rlog
           ELSE IF rh.current_state = STATE_WAITING_FOR_TOTAL_INFO_HEADER
           THEN IF r.token = FOLDER_HEADER_TYPE_TOTAL_INFO
                THEN rh' = [h1 EXCEPT !.pc = "tidata"] /\ UNCHANGED rlog
                ELSE IF r.token \in ItemTypes \cup {FOLDER_HEADER_TYPE_END_TRANSFER}
                THEN /\ rh' = [h1 EXCEPT
                           !.received_buffer = FOLDER_PROTOCOL_PREFIX \o Sep \o r.token \o Sep \o r.rest,
                           !.current_state = STATE_WAITING_FOR_ITEM_HEADER,
                           !.total_expected_items = Skipped,
                           !.total_expected_size = Skipped,
                           !.pc = "loop"]
                     /\ UNCHANGED rlog
                ELSE rh' = Raise(h1, "ValueError") /\ UNCHANGED rlog
           ELSE IF r.token = FOLDER_HEADER_TYPE_END_TRANSFER
           THEN LET h2 == close_current_file(h1)
                IN  /\ rh' = [h2 EXCEPT
                           !.current_state = STATE_WAITING_FOR_HANDSHAKE_REQUEST,
                           !.transfer_success = verification_passed(h2),
                           !.pc = "loop"]
                    /\ rlog' = Append(rlog, LogEntry("END", r.token, NoPath,
                                          h2.items_received_count, h2.received_bytes_total,
                                          StreamPos(h1)))
           ELSE IF r.token \in ItemTypes
           THEN rh' = [h1 EXCEPT !.pc = "path"] /\ UNCHANGED rlog
           ELSE rh' = [h1 EXCEPT !.pc = "loop"] /\ UNCHANGED rlog
    /\ UNCHANGED << rQuiet, fs_dirs, fs_files >>

\* the data segment of a TOTAL_INFO header: "count,size"
RTotalInfoData ==
    /\ rh.pc = "tidata" /\ HasSep(rh.received_buffer)
    /\ LET r == read_header(rh.received_buffer)
           h1 == [rh EXCEPT !.received_buffer = r.rest]
           count_size_parts == Split(r.token, TOTAL_INFO_COUNT_SIZE_SEPARATOR)
           parsed_count == ParseInt(count_size_parts[1])
           parsed_size == ParseInt(count_size_parts[2])
       IN  IF ~r.ok THEN rh' = Raise(rh, "ValueError") /\ UNCHANGED rlog
           ELSE IF Len(count_size_parts) # 2 THEN rh' = Raise(h1, "ValueError") /\ UNCHANGED rlog
           ELSE IF ~parsed_count.ok \/ ~parsed_size.ok
           THEN rh' = Raise(h1, "ValueError") /\ UNCHANGED rlog
           ELSE IF parsed_count.v < 0 \/ parsed_size.v < 0
           THEN rh' = Raise(h1, "ValueError") /\ UNCHANGED rlog
           ELSE /\ rh' = [h1 EXCEPT !.total_expected_items = parsed_count.v,
                                    !.total_expected_size = parsed_size.v,
                                    !.current_state = STATE_WAITING_FOR_ITEM_HEADER,
                                    !.pc = "loop"]
                /\ rlog' = Append(rlog, LogEntry("TOTAL_INFO", r.token, NoPath,
                                      parsed_count.v, parsed_size.v, StreamPos(h1)))
    /\ UNCHANGED << rQuiet, fs_dirs, fs_files >>

\* RRootPath without the test of the first header's type
RRootPath_any_type(r) ==
    LET h1 == [rh EXCEPT !.received_buffer = r.rest, !.item_path_raw = r.token]
        name == sanitized_root_name(r.token)
        sp == sanitize_path(received_files_base_abs, name \o << "/" >>)
    IN  IF FALSE
        THEN rh' = Raise(h1, "ValueError") /\ UNCHANGED << rlog, fs_dirs >>
        ELSE IF ~sp.ok \/ (~exists(sp.path) /\ MakedirsFails(sp.path))
        THEN rh' = Raise(h1, "ValueError") /\ UNCHANGED << rlog, fs_dirs >>
        ELSE /\ fs_dirs' = IF exists(sp.path) THEN fs_dirs ELSE fs_dirs \cup Prefixes(sp.path)
             /\ rh' = [h1 EXCEPT !.session_root_name = name,
                                 !.current_save_dir = sp.path,
                                 !.items_received_count = @ + 1,
                                 !.current_state = STATE_WAITING_FOR_TOTAL_INFO_HEADER,
                                 !.pc = "loop"]
             /\ rlog' = Append(rlog, LogEntry("ROOT", r.token, sp.path, 0, 0, StreamPos(h1)))

\* the path segment of the first (root) FOLDER header
RRootPath(r) ==
    LET h1 == [rh EXCEPT !.received_buffer = r.rest, !.item_path_raw = r.token]
        name == sanitized_root_name(r.token)
        sp == sanitize_path(received_files_base_abs, name \o << "/" >>)
    IN  IF rh.header_type_segment # FOLDER_HEADER_TYPE_FOLDER
        THEN rh' = Raise(h1, "ValueError") /\ UNCHANGED << rlog, fs_dirs >>
        ELSE IF ~sp.ok \/ (~exists(sp.path) /\ MakedirsFails(sp.path))
        THEN rh' = Raise(h1, "ValueError") /\ UNCHANGED << rlog, fs_dirs >>
        ELSE /\ fs_dirs' = IF exists(sp.path) THEN fs_dirs ELSE fs_dirs \cup Prefixes(sp.path)
             /\ rh' = [h1 EXCEPT !.session_root_name = name,
                                 !.current_save_dir = sp.path,
                                 !.items_received_count = @ + 1,
                                 !.current_state = STATE_WAITING_FOR_TOTAL_INFO_HEADER,
                                 !.pc = "loop"]
             /\ rlog' = Append(rlog, LogEntry("ROOT", r.token, sp.path, 0, 0, StreamPos(h1)))

\* the path segment of a FOLDER item header
RFolderPath(r) ==
    LET h1 == [rh EXCEPT !.received_buffer = r.rest, !.item_path_raw = r.token]
        rel == path_relative_to_session_root(r.token, rh.session_root_name)
        path_for_sanitization ==
            IF rel.rel # << >> /\ ~EndsWith(rel.rel, << "/" >>)
            THEN rel.rel \o << "/" >> ELSE rel.rel
        sp == sanitize_path(rh.current_save_dir, path_for_sanitization)
    IN  IF ~rel.ok \/ ~sp.ok
        THEN rh' = Raise(h1, "ValueError") /\ UNCHANGED << rlog, fs_dirs >>
        ELSE IF NormSegs(sp.path) = NormSegs(rh.current_save_dir)
                /\ Strip(r.token) # Strip(rh.session_root_name \o << "/" >>)
        THEN rh' = Raise(h1, "ValueError") /\ UNCHANGED << rlog, fs_dirs >>
        ELSE IF MakedirsFails(sp.path)
        THEN rh' = Raise(h1, "ValueError") /\ UNCHANGED << rlog, fs_dirs >>
        ELSE /\ fs_dirs' = fs_dirs \cup Prefixes(sp.path)
             /\ rh' = [h1 EXCEPT !.items_received_count = @ + 1, !.pc = "loop"]
             /\ rlog' = Append(rlog, LogEntry("FOLDER", r.token, sp.path, 0, 0, StreamPos(h1)))

\* the path segment of a FILE item header; the size segment follows
RFilePath(r) ==
    LET h1 == [rh EXCEPT !.received_buffer = r.rest, !.item_path_raw = r.token]
        rel == path_relative_to_session_root(r.token, rh.session_root_name)
        path_for_sanitization ==
            IF EndsWith(rel.rel, << "/" >>) THEN RStrip(rel.rel, {"/"}) ELSE rel.rel
    IN  /\ rh' = IF ~rel.ok \/ path_for_sanitization = << >>
                 THEN Raise(h1, "ValueError")
                 ELSE [h1 EXCEPT !.path_for_sanitization = path_for_sanitization,
                                 !.pc = "size"]
        /\ UNCHANGED << rlog, fs_dirs >>

RPath ==
    /\ rh.pc = "path" /\ HasSep(rh.received_buffer)
    /\ LET r == read_header(rh.received_buffer)
       IN  IF ~r.ok THEN rh' = Raise(rh, "ValueError") /\ UNCHANGED << rlog, fs_dirs >>
           ELSE IF rh.current_state = STATE_WAITING_FOR_ROOT_FOLDER_HEADER THEN RRootPath(r)
           ELSE IF rh.header_type_segment = FOLDER_HEADER_TYPE_FOLDER THEN RFolderPath(r)
           ELSE RFilePath(r)
    /\ UNCHANGED << rQuiet, fs_files >>

\* item_size > config.TEST_FILE_SIZE * 10000, computed without leaving
\* the 32-bit range
excessively_large(item_size) ==
    \/ item_size \div 10000 > TEST_FILE_SIZE
    \/ item_size \div 10000 = TEST_FILE_SIZE /\ item_size % 10000 > 0

\* RSize without the branch for files of size 0: every file is opened and
\* the file data state entered
RSize_without_empty_file_branch ==
    /\ rh.pc = "size" /\ HasSep(rh.received_buffer)
    /\ LET r == read_header(rh.received_buffer)
           h1 == [rh EXCEPT !.received_buffer = r.rest]
           item_size == ParseInt(r.token)
           h2 == [h1 EXCEPT !.current_file_bytes_received = 0,
                            !.current_file_bytes_expected = item_size.v]
           sp == sanitize_path(rh.current_save_dir, rh.path_for_sanitization)
           parent_dir == dirname(sp.path)
           make_parent == ~exists(parent_dir)
           final_file_path == UniqueFilePath(sp.path)
           h3 == [h2 EXCEPT !.current_file_path = final_file_path]
           fail(h) == /\ rh' = Raise(h, "ValueError")
                      /\ UNCHANGED << rlog, fs_files >>
       IN  IF ~r.ok THEN fail(rh) /\ UNCHANGED fs_dirs
           ELSE IF ~item_size.ok \/ item_size.v < 0 \/ excessively_large(item_size.v)
           THEN fail(h1) /\ UNCHANGED fs_dirs
           ELSE IF ~sp.ok \/ NormSegs(sp.path) = NormSegs(rh.current_save_dir)
           THEN fail(h2) /\ UNCHANGED fs_dirs
           ELSE IF make_parent /\ MakedirsFails(parent_dir)
           THEN fail(h2) /\ UNCHANGED fs_dirs
           ELSE /\ fs_dirs' = IF make_parent THEN fs_dirs \cup Prefixes(parent_dir) ELSE fs_dirs
                /\ IF isdir(sp.path) \/ final_file_path = NoPath
                   THEN fail(h2)
                   ELSE IF ~isdir(parent_dir) /\ ~make_parent
                   THEN fail(h3)     \* open() fails: the parent is a file
                   ELSE /\ fs_files' = [q \in DOMAIN fs_files \cup {final_file_path} |->
                                           IF q = final_file_path THEN << >> ELSE fs_files[q]]
                        /\ rh' = [h3 EXCEPT !.items_received_count = @ + 1,
                                            !.current_file_handle = TRUE,
                                            !.current_state = STATE_RECEIVING_FILE_DATA,
                                            !.pc = "loop"]
                        /\ rlog' = Append(rlog, LogEntry("FILE", rh.item_path_raw, final_file_path,
                                              item_size.v, 0, StreamPos(h1)))
    /\ UNCHANGED rQuiet

\* the size segment of a FILE header: the file is prepared and opened
RSize ==
    /\ rh.pc = "size" /\ HasSep(rh.received_buffer)
    /\ LET r == read_header(rh.received_buffer)
           h1 == [rh EXCEPT !.received_buffer = r.rest]
           item_size == ParseInt(r.token)
           h2 == [h1 EXCEPT !.current_file_bytes_received = 0,
                            !.current_file_bytes_expected = item_size.v]
           sp == sanitize_path(rh.current_save_dir, rh.path_for_sanitization)
           parent_dir == dirname(sp.path)
           make_parent == ~exists(parent_dir)
           final_file_path == UniqueFilePath(sp.path)
           h3 == [h2 EXCEPT !.current_file_path = final_file_path]
           fail(h) == /\ rh' = Raise(h, "ValueError")
                      /\ UNCHANGED << rlog, fs_files >>
       IN  IF ~r.ok THEN fail(rh) /\ UNCHANGED fs_dirs
           ELSE IF ~item_size.ok \/ item_size.v < 0 \/ excessively_large(item_size.v)
           THEN fail(h1) /\ UNCHANGED fs_dirs
           ELSE IF ~sp.ok \/ NormSegs(sp.path) = NormSegs(rh.current_save_dir)
           THEN fail(h2) /\ UNCHANGED fs_dirs
           ELSE IF make_parent /\ MakedirsFails(parent_dir)
           THEN fail(h2) /\ UNCHANGED fs_dirs
           ELSE /\ fs_dirs' = IF make_parent THEN fs_dirs \cup Prefixes(parent_dir) ELSE fs_dirs
                /\ IF isdir(sp.path) \/ final_file_path = NoPath
                   THEN fail(h2)
                   ELSE IF ~isdir(parent_dir) /\ ~make_parent
                   THEN fail(h3)     \* open() fails: the parent is a file
                   ELSE /\ fs_files' = [q \in DOMAIN fs_files \cup {final_file_path} |->
                                           IF q = final_file_path THEN << >> ELSE fs_files[q]]
                        /\ rh' = IF item_size.v = 0
                                 THEN [h3 EXCEPT !.items_received_count = @ + 1,
                                                 !.current_state = STATE_WAITING_FOR_ITEM_HEADER,
                                                 !.pc = "loop"]
                                 ELSE [h3 EXCEPT !.items_received_count = @ + 1,
                                                 !.current_file_handle = TRUE,
                                                 !.current_state = STATE_RECEIVING_FILE_DATA,
                                                 !.pc = "loop"]
                        /\ rlog' = Append(rlog, LogEntry("FILE", rh.item_path_raw, final_file_path,
                                              item_size.v, 0, StreamPos(h1)))
    /\ UNCHANGED rQuiet

(***************************************************************************)
(* The file data loop: one action per iteration outcome.                   *)
(***************************************************************************)
\* bytes_needed_for_file at the top of an iteration
bytes_needed_for_file(h) == h.current_file_bytes_expected - h.current_file_bytes_received

bytes_to_process_from_buffer(h) == Min(Len(h.received_buffer), bytes_needed_for_file(h))

\* fs_files after current_file_handle.write(data)
Written(h, data) ==
    [fs_files EXCEPT ![h.current_file_path] = @ \o data]

\* the buffered bytes are written but stay in the carry-over buffer
AfterBuffer_not_consumed(h) ==
    LET n == bytes_to_process_from_buffer(h)
    IN  [h EXCEPT !.current_file_bytes_received = @ + n,
                  !.received_bytes_total = @ + n]

\* the buffered bytes are written but not added to received_bytes_total
AfterBuffer_not_counted(h) ==
    LET n == bytes_to_process_from_buffer(h)
    IN  [h EXCEPT !.current_file_bytes_received = @ + n,
                  !.received_buffer = Drop(@, n)]

\* the handler's locals after the buffered bytes were written to the file
AfterBuffer(h) ==
    LET n == bytes_to_process_from_buffer(h)
    IN  [h EXCEPT !.current_file_bytes_received = @ + n,
                  !.received_bytes_total = @ + n,
                  !.received_buffer = Drop(@, n)]

RDataActive == rh.pc = "filedata" /\ rh.current_file_handle

\* the token is seen at the top of an iteration: break, then the main loop ends
RDataCancel ==
    /\ RDataActive /\ r_cancel
    /\ rh' = [rh EXCEPT !.is_cancelled = TRUE, !.pc = "loop"]
    /\ UNCHANGED << rQuiet, fs_dirs, fs_files, rlog >>

\* the buffered bytes complete the file
RDataComplete ==
    /\ RDataActive /\ ~r_cancel
    /\ bytes_to_process_from_buffer(rh) = bytes_needed_for_file(rh)
    /\ fs_files' = Written(rh, Take(rh.received_buffer, bytes_to_process_from_buffer(rh)))
    /\ rh' = [close_current_file(AfterBuffer(rh)) EXCEPT
                  !.current_state = STATE_WAITING_FOR_ITEM_HEADER, !.pc = "loop"]
    /\ UNCHANGED << rQuiet, fs_dirs, rlog >>

\* a recv that is taken for the file's last: the file is closed and the next
\* header awaited whatever is still missing
RDataRecv_ends_file ==
    /\ RDataActive /\ ~r_cancel
    /\ bytes_to_process_from_buffer(rh) < bytes_needed_for_file(rh)
    /\ \E k \in WireChunkSizes(Min(receive_buffer_size, bytes_needed_for_file(rh))) :
          /\ recvd' = recvd + k
          /\ rh' = [close_current_file(AfterBuffer(rh)) EXCEPT
                        !.received_buffer = @ \o SubSeq(wire, recvd + 1, recvd + k),
                        !.current_state = STATE_WAITING_FOR_ITEM_HEADER,
                        !.pc = "loop"]
    /\ fs_files' = Written(rh, Take(rh.received_buffer, bytes_to_process_from_buffer(rh)))
    /\ UNCHANGED << rFrame, back, sock_closed, gui_queue, handlers, fs_dirs, rlog >>

\* the buffered bytes are written, more are needed and recv returns some
RDataRecv ==
    /\ RDataActive /\ ~r_cancel
    /\ bytes_to_process_from_buffer(rh) < bytes_needed_for_file(rh)
    /\ \E k \in WireChunkSizes(Min(receive_buffer_size, bytes_needed_for_file(rh))) :
          /\ recvd' = recvd + k
          /\ rh' = [AfterBuffer(rh) EXCEPT
                        !.received_buffer = @ \o SubSeq(wire, recvd + 1, recvd + k)]
    /\ fs_files' = Written(rh, Take(rh.received_buffer, bytes_to_process_from_buffer(rh)))
    /\ UNCHANGED << rFrame, back, sock_closed, gui_queue, handlers, fs_dirs, rlog >>

\* the buffered bytes are written, more are needed and recv returns b""
RDataPeerClosed ==
    /\ RDataActive /\ ~r_cancel
    /\ bytes_to_process_from_buffer(rh) < bytes_needed_for_file(rh)
    /\ WireAvail = 0 /\ peer_closed
    /\ fs_files' = Written(rh, Take(rh.received_buffer, bytes_to_process_from_buffer(rh)))
    /\ rh' = Raise(AfterBuffer(rh), "ConnectionResetError")
    /\ UNCHANGED << rQuiet, fs_dirs, rlog >>

\* the buffered bytes are written, more are needed and recv times out:
\* the loop continues
RDataTimeout ==
    /\ RDataActive /\ ~r_cancel
    /\ bytes_to_process_from_buffer(rh) < bytes_needed_for_file(rh)
    /\ WireAvail = 0 /\ ~peer_closed
    /\ fs_files' = Written(rh, Take(rh.received_buffer, bytes_to_process_from_buffer(rh)))
    /\ rh' = AfterBuffer(rh)
    /\ UNCHANGED << rQuiet, fs_dirs, rlog >>

(***************************************************************************)
(* perform_folder_handshake_server and the end of the handler              *)
(***************************************************************************)
\* a handshake phase that ends without any response being sent
RHandshake_silent ==
    /\ rh.pc = "hs"
    /\ rh' = [rh EXCEPT !.current_state = STATE_HANDSHAKE_COMPLETE, !.pc = "loop"]
    /\ UNCHANGED << rFrame, recvd, back, sock_closed, gui_queue, handlers,
                    fs_dirs, fs_files, rlog >>

\* a handshake phase that answers TRANSFER_COMPLETE_OK whatever the
\* verification found
RHandshake_always_ok ==
    /\ rh.pc = "hs"
    /\ back' = back \o HANDSHAKE_COMPLETE_OK_SIGNAL
    /\ rh' = [rh EXCEPT !.reply = "OK",
                        !.current_state = STATE_HANDSHAKE_COMPLETE,
                        !.pc = "loop"]
    /\ UNCHANGED << rFrame, recvd, sock_closed, gui_queue, handlers, fs_dirs, fs_files, rlog >>

\* perform_folder_handshake_server: the response is handed to sendall at
\* once; nothing is read from the connection
RHandshake ==
    /\ rh.pc = "hs"
    /\ LET signal == IF rh.transfer_success THEN HANDSHAKE_COMPLETE_OK_SIGNAL
                     ELSE HANDSHAKE_ERROR_SIGNAL
       IN  /\ back' = back \o signal
           /\ rh' = [rh EXCEPT !.reply = IF rh.transfer_success THEN "OK" ELSE "ERROR",
                               !.current_state = STATE_HANDSHAKE_COMPLETE,
                               !.pc = "loop"]
    /\ UNCHANGED << rFrame, recvd, sock_closed, gui_queue, handlers, fs_dirs, fs_files, rlog >>

\* os.remove(current_file_path) in the finally block
\* the removal condition without its tests of the byte counts
remove_incomplete_any_size(h) ==
    /\ ~h.transfer_success
    /\ h.current_file_path # NoPath
    /\ h.current_file_path \in DOMAIN fs_files

remove_incomplete(h) ==
    /\ ~h.transfer_success
    /\ h.current_file_path # NoPath
    /\ h.current_file_path \in DOMAIN fs_files
    /\ h.current_file_bytes_expected > 0
    /\ h.current_file_bytes_received < h.current_file_bytes_expected

RFinally ==
    /\ rh.pc = "finally"
    /\ LET h1 == close_current_file(rh)
       IN  /\ fs_files' = IF remove_incomplete(h1)
                          THEN [q \in DOMAIN fs_files \ {h1.current_file_path} |-> fs_files[q]]
                          ELSE fs_files
           /\ rh' = [h1 EXCEPT !.pc = "done"]
    /\ sock_closed' = TRUE
    /\ gui_queue' = Append(gui_queue, "on_transfer_finished")
    /\ handlers' = [i \in DOMAIN handlers |-> "finished"]
    /\ UNCHANGED << rFrame, recvd, back, fs_dirs, rlog >>

(***************************************************************************)
(* The GUI thread                                                          *)
(***************************************************************************)
\* the Tk event loop runs the oldest callback scheduled by safe_gui_update
GuiCallback ==
    /\ gui_queue # << >>
    /\ is_transfer_active' = (Head(gui_queue) = "on_transfer_started")
    /\ gui_queue' = Tail(gui_queue)
    /\ UNCHANGED << connVars, r_cancel, s_cancel, fs_dirs, fs_files, rh, fh, disc, dclient, rlog, sh, source,
                    srv_pc, pending, handlers >>

\* cancel_transfer_ui on the receiving side
CancelTransferReceiver ==
    /\ is_transfer_active /\ ~r_cancel
    /\ r_cancel' = TRUE
    /\ UNCHANGED << connVars, s_cancel, fs_dirs, fs_files, rh, fh, disc, dclient, rlog, sh, source, srvVars >>

(***************************************************************************)
(* handle_client_connection: the single-file handler, started by the       *)
(* accept loop with the sniffed bytes as initial_buffer.  fh.pc is the     *)
(* position of the handler thread:                                         *)
(*   "idle" "filename" "filesize" "buffersize" "data" "finally" "done"     *)
(***************************************************************************)
\* save_dir = "received_files", made absolute
single_file_base_abs ==
    << <<"c","w","d">>, <<"r","e","c","e","i","v","e","d","_","f","i","l","e","s">> >>

\* os.path.basename
basename(p) == Drop(p, RFind(p, "/", Len(p)))

fhInit ==
    [pc |-> "idle", exc |-> "none",
     current_remaining_buffer |-> << >>,
     filename_from_header |-> << >>,
     filesize |-> 0, received_bytes |-> 0,
     is_cancelled |-> FALSE, transfer_success |-> FALSE,
     file_handle |-> FALSE, file_path |-> NoPath]

fFrame == << wire, peer_closed, back, back_read, r_cancel, s_cancel, sh, source, rh, rlog,
             disc, dclient,
             srv_pc, is_transfer_active, pending >>

fQuiet == << fFrame, recvd, sock_closed, fs_dirs, fs_files, gui_queue, handlers >>

\* the handler thread starts with initial_buffer
FStart ==
    /\ rh.pc = "file_handler" /\ fh.pc = "idle"
    /\ fh' = [fh EXCEPT !.current_remaining_buffer = rh.received_buffer, !.pc = "filename"]
    /\ UNCHANGED fQuiet

\* an exception of the header phase: the outer except blocks
FRaise(f, e) ==
    [f EXCEPT !.is_cancelled = TRUE, !.transfer_success = FALSE, !.exc = e, !.pc = "finally"]

FHeaderPcs == {"filename", "filesize", "buffersize"}

FHeaderWaiting == fh.pc \in FHeaderPcs /\ ~HasSep(fh.current_remaining_buffer)

FHeaderCancel ==
    /\ FHeaderWaiting /\ r_cancel
    /\ fh' = FRaise(fh, "CancelledError")
    /\ UNCHANGED fQuiet

FHeaderRecv ==
    /\ FHeaderWaiting /\ ~r_cancel /\ WireAvail > 0
    /\ IF header_chunk_size(fh.current_remaining_buffer) <= 0
       THEN fh' = FRaise(fh, "ValueError") /\ UNCHANGED recvd
       ELSE \E k \in WireChunkSizes(header_chunk_size(fh.current_remaining_buffer)) :
              LET header_buffer == fh.current_remaining_buffer
                                       \o SubSeq(wire, recvd + 1, recvd + k)
              IN  /\ recvd' = recvd + k
                  /\ fh' = IF ~HasSep(header_buffer) /\ Len(header_buffer) > max_buffer
                           THEN FRaise(fh, "ValueError")
                           ELSE [fh EXCEPT !.current_remaining_buffer = header_buffer]
    /\ UNCHANGED << fFrame, sock_closed, fs_dirs, fs_files, gui_queue, handlers >>

\* recv returns b"" while a header is read
FHeaderPeerClosed ==
    /\ FHeaderWaiting /\ ~r_cancel /\ WireAvail = 0 /\ peer_closed
    /\ fh' = FRaise(fh, IF fh.current_remaining_buffer = << >>
                        THEN "ConnectionResetError" ELSE "ValueError")
    /\ UNCHANGED fQuiet

\* nothing arrives until the header timeout expires
FHeaderTimeout ==
    /\ FHeaderWaiting /\ ~r_cancel /\ WireAvail = 0 /\ ~peer_closed
    /\ fh' = FRaise(fh, "timeout")
    /\ UNCHANGED fQuiet

\* header part 1: the filename
FFilename ==
    /\ fh.pc = "filename" /\ HasSep(fh.current_remaining_buffer)
    /\ LET r == read_header(fh.current_remaining_buffer)
       IN  fh' = IF ~r.ok THEN FRaise(fh, "ValueError")
                 ELSE [fh EXCEPT !.filename_from_header = r.token,
                                 !.current_remaining_buffer = r.rest,
                                 !.pc = "filesize"]
    /\ UNCHANGED fQuiet

\* header part 2: the filesize
FFilesize ==
    /\ fh.pc = "filesize" /\ HasSep(fh.current_remaining_buffer)
    /\ LET r == read_header(fh.current_remaining_buffer)
           filesize == ParseInt(r.token)
           f1 == [fh EXCEPT !.current_remaining_buffer = r.rest]
       IN  fh' = IF ~r.ok THEN FRaise(fh, "ValueError")
                 ELSE IF ~filesize.ok \/ filesize.v < 0 \/ excessively_large(filesize.v)
                 THEN FRaise(f1, "ValueError")
                 ELSE [f1 EXCEPT !.filesize = filesize.v, !.pc = "buffersize"]
    /\ UNCHANGED fQuiet

\* the condition of the removal in the inner finally block, for an empty
\* file only
remove_partial_file_if_empty(f) ==
    /\ ~f.transfer_success
    /\ f.file_path # NoPath /\ exists(f.file_path)
    /\ f.filesize > 0 /\ f.received_bytes = 0

\* the condition of the removal in the inner finally block
remove_partial_file(f) ==
    /\ ~f.transfer_success
    /\ f.file_path # NoPath /\ exists(f.file_path)
    /\ f.filesize > 0 /\ f.received_bytes < f.filesize

\* header part 3 (the sender's buffer size, used for display only), the look
\* at the token, the destination path, the opening of the file and the
\* bytes of initial_buffer that belong to the file
FBuffersize ==
    /\ fh.pc = "buffersize" /\ HasSep(fh.current_remaining_buffer)
    /\ LET r == read_header(fh.current_remaining_buffer)
           f1 == [fh EXCEPT !.current_remaining_buffer = r.rest]
           save_filename_raw == basename(fh.filename_from_header)
           sp == sanitize_path(single_file_base_abs, save_filename_raw)
           file_path == UniqueFilePathAfterMakedirs(Prefixes(single_file_base_abs), sp.path)
           f2 == [f1 EXCEPT !.file_path = file_path]
           bytes_to_write_now == Min(Len(r.rest), fh.filesize)
           stop(f) == /\ fh' = [f EXCEPT !.is_cancelled = TRUE, !.pc = "finally"]
                      /\ UNCHANGED fs_files
       IN  IF ~r.ok THEN fh' = FRaise(fh, "ValueError") /\ UNCHANGED fsVars
           ELSE IF r_cancel THEN stop(f1) /\ UNCHANGED fs_dirs
           ELSE IF MakedirsFails(single_file_base_abs)
           THEN stop(f1) /\ UNCHANGED fs_dirs
           ELSE /\ fs_dirs' = fs_dirs \cup Prefixes(single_file_base_abs)
                /\ IF ~sp.ok \/ file_path = NoPath
                   THEN stop(f1)
                   ELSE IF dirname(file_path) \notin fs_dirs \cup Prefixes(single_file_base_abs)
                   THEN stop(f2)    \* open() fails
                   ELSE /\ fs_files' = [q \in DOMAIN fs_files \cup {file_path} |->
                                           IF q = file_path THEN Take(r.rest, bytes_to_write_now)
                                           ELSE fs_files[q]]
                        /\ fh' = IF fh.filesize = 0
                                 THEN [f2 EXCEPT !.transfer_success = TRUE, !.pc = "finally"]
                                 ELSE IF bytes_to_write_now >= fh.filesize
                                 THEN [f2 EXCEPT !.file_handle = TRUE,
                                                 !.received_bytes = bytes_to_write_now,
                                                 !.current_remaining_buffer = << >>,
                                                 !.transfer_success = TRUE, !.pc = "finally"]
                                 ELSE [f2 EXCEPT !.file_handle = TRUE,
                                                 !.received_bytes = bytes_to_write_now,
                                                 !.current_remaining_buffer = << >>,
                                                 !.pc = "data"]
    /\ UNCHANGED << fFrame, recvd, sock_closed, gui_queue, handlers >>

FDataActive == fh.pc = "data" /\ fh.received_bytes < fh.filesize

\* the token is seen at the top of an iteration
FDataCancel ==
    /\ FDataActive /\ r_cancel
    /\ fh' = [fh EXCEPT !.is_cancelled = TRUE, !.pc = "finally"]
    /\ UNCHANGED fQuiet

\* recv returns bytes: they are written; the loop ends when filesize is reached
FDataRecv ==
    /\ FDataActive /\ ~r_cancel
    /\ \E k \in WireChunkSizes(Min(receive_buffer_size, fh.filesize - fh.received_bytes)) :
          LET bytes_read_chunk == SubSeq(wire, recvd + 1, recvd + k)
          IN  /\ recvd' = recvd + k
              /\ fs_files' = [fs_files EXCEPT ![fh.file_path] = @ \o bytes_read_chunk]
              /\ fh' = IF fh.received_bytes + k >= fh.filesize
                       THEN [fh EXCEPT !.received_bytes = @ + k,
                                       !.transfer_success = TRUE, !.pc = "finally"]
                       ELSE [fh EXCEPT !.received_bytes = @ + k]
    /\ UNCHANGED << fFrame, sock_closed, fs_dirs, gui_queue, handlers >>

\* recv returns b"" or raises: the connection is lost
FDataPeerClosed ==
    /\ FDataActive /\ ~r_cancel /\ WireAvail = 0 /\ peer_closed
    /\ fh' = [fh EXCEPT !.is_cancelled = TRUE, !.pc = "finally"]
    /\ UNCHANGED fQuiet

\* the inner finally block (the file is closed, an incomplete file removed)
\* and the outer one (the socket is closed, on_transfer_finished scheduled)
FFinally ==
    /\ fh.pc = "finally"
    /\ fs_files' = IF remove_partial_file(fh)
                   THEN [q \in DOMAIN fs_files \ {fh.file_path} |-> fs_files[q]]
                   ELSE fs_files
    /\ fh' = [fh EXCEPT !.file_handle = FALSE, !.pc = "done"]
    /\ sock_closed' = TRUE
    /\ gui_queue' = Append(gui_queue, "on_transfer_finished")
    /\ handlers' = [i \in DOMAIN handlers |-> "finished"]
    /\ UNCHANGED << fFrame, recvd, fs_dirs >>

(***************************************************************************)
(* send_folder_task.                                                       *)
(*                                                                         *)
(* source is the folder as os.walk presents it: the root folder's name and *)
(* the (dirpath, dirnames, filenames) triples top-down; a file is its name *)
(* and content.  sh.pc is the position of the sending thread:              *)
(*   "connect" "walk" "chunk" "end" "handshake" "wait" "finally" "done"    *)
(***************************************************************************)
\* buffer_size chosen in the GUI: the smallest of BUFFER_OPTIONS
buffer_size == 4096

WalkDir(rel, dirnames, filenames) ==
    [rel |-> rel, dirnames |-> dirnames, filenames |-> filenames]
SrcFile(name, data) == [name |-> name, data |-> data]

\* os.path.join(a, b) with '/' as os.sep
PathJoin(a, b) == IF a = << >> THEN b ELSE a \o << "/" >> \o b

RECURSIVE SumSeq(_)
SumSeq(q) == IF q = << >> THEN 0 ELSE q[1] + SumSeq(Tail(q))

\* the counting walk done before connecting
total_item_count(src) ==
    SumSeq([i \in 1..Len(src.walk) |-> 1 + Len(src.walk[i].filenames)])
total_folder_size(src) ==
    SumSeq([i \in 1..Len(src.walk) |->
               SumSeq([j \in 1..Len(src.walk[i].filenames) |->
                          Len(src.walk[i].filenames[j].data)])])

\* the iterations of the sending walk, in order: the check at the top of a
\* dirpath, then one per dirname, then one per filename
WalkStepsOfDir(root, d) ==
    << [kind |-> "dirpath", path |-> << >>, data |-> << >>] >>
    \o [j \in 1..Len(d.dirnames) |->
          [kind |-> "dirname",
           path |-> PathJoin(root, PathJoin(d.rel, d.dirnames[j])) \o << "/" >>,
           data |-> << >>]]
    \o [j \in 1..Len(d.filenames) |->
          [kind |-> "file",
           path |-> PathJoin(root, PathJoin(d.rel, d.filenames[j].name)),
           data |-> d.filenames[j].data]]

RECURSIVE WalkStepsFrom(_, _)
WalkStepsFrom(src, i) ==
    IF i > Len(src.walk) THEN << >>
    ELSE WalkStepsOfDir(src.root, src.walk[i]) \o WalkStepsFrom(src, i + 1)
WalkSteps(src) == WalkStepsFrom(src, 1)

Header2(type, a) == FOLDER_PROTOCOL_PREFIX \o Sep \o type \o Sep \o a \o Sep
Header1(type) == FOLDER_PROTOCOL_PREFIX \o Sep \o type \o Sep

root_header(src) == Header2(FOLDER_HEADER_TYPE_FOLDER, src.root \o << "/" >>)
total_info_header(src) ==
    Header2(FOLDER_HEADER_TYPE_TOTAL_INFO,
            IntToStr(total_item_count(src)) \o << TOTAL_INFO_COUNT_SIZE_SEPARATOR >>
            \o IntToStr(total_folder_size(src)))
subdir_header(path) == Header2(FOLDER_HEADER_TYPE_FOLDER, path)
file_header(path, size) == Header2(FOLDER_HEADER_TYPE_FILE, path) \o IntToStr(size) \o Sep
end_transfer_header == Header1(FOLDER_HEADER_TYPE_END_TRANSFER)

\* client_socket.sendall(data) returns: the connection (the socket buffers
\* of both ends) takes all of data; otherwise the call blocks until the peer
\* reads, for ever when the socket has no timeout
sendall_returns(data) == (Len(wire) - recvd) + Len(data) <= SendCapacity

\* the locals of send_folder_task; file_sizes_sent records the sum of the
\* file_size fields of the FILE headers handed to sendall
shInit ==
    [pc |-> "connect", i |-> 1, exc |-> "none",
     is_cancelled |-> FALSE, walk_completed_naturally |-> FALSE,
     transfer_success |-> FALSE, response_buffer |-> << >>,
     items_sent_count |-> 0, file_sizes_sent |-> 0]

sFrame == << recvd, back, sock_closed, r_cancel, s_cancel, fs_dirs, fs_files, rh, fh, disc, dclient, rlog,
             source, srvVars >>

\* after connecting: the check of the token, the root header and TOTAL_INFO
SConnect ==
    /\ sh.pc = "connect"
    /\ IF s_cancel
       THEN sh' = [sh EXCEPT !.is_cancelled = TRUE, !.pc = "finally"] /\ UNCHANGED wire
       ELSE /\ sendall_returns(root_header(source) \o total_info_header(source))
            /\ wire' = wire \o root_header(source) \o total_info_header(source)
            /\ sh' = [sh EXCEPT !.pc = "walk"]
    /\ UNCHANGED << sFrame, peer_closed, back_read >>

\* one iteration of the sending walk
SWalk ==
    /\ sh.pc = "walk" /\ sh.i <= Len(WalkSteps(source))
    /\ LET st == WalkSteps(source)[sh.i]
           next_pc == IF sh.i = Len(WalkSteps(source)) THEN "end" ELSE "walk"
       IN  IF s_cancel
           THEN sh' = [sh EXCEPT !.is_cancelled = TRUE, !.pc = "end"] /\ UNCHANGED wire
           ELSE IF st.kind = "dirpath"
           THEN sh' = [sh EXCEPT !.i = @ + 1, !.pc = next_pc] /\ UNCHANGED wire
           ELSE IF st.kind = "dirname"
           THEN IF Len(subdir_header(st.path)) > BUFFER_SIZE_FOR_HEADER
                THEN sh' = [sh EXCEPT !.i = @ + 1, !.pc = next_pc] /\ UNCHANGED wire
                ELSE /\ sendall_returns(subdir_header(st.path))
                     /\ wire' = wire \o subdir_header(st.path)
                     /\ sh' = [sh EXCEPT !.i = @ + 1, !.pc = next_pc,
                                         !.items_sent_count = @ + 1]
           ELSE IF Len(file_header(st.path, Len(st.data))) > BUFFER_SIZE_FOR_HEADER
           THEN sh' = [sh EXCEPT !.i = @ + 1, !.pc = next_pc] /\ UNCHANGED wire
           ELSE /\ sendall_returns(file_header(st.path, Len(st.data)))
                /\ wire' = wire \o file_header(st.path, Len(st.data))
                /\ sh' = IF st.data = << >>
                         THEN [sh EXCEPT !.i = @ + 1, !.pc = next_pc,
                                         !.items_sent_count = @ + 1,
                                         !.file_sizes_sent = @ + Len(st.data)]
                         ELSE [sh EXCEPT !.pc = "chunk",
                                         !.items_sent_count = @ + 1,
                                         !.file_sizes_sent = @ + Len(st.data)]
    /\ UNCHANGED << sFrame, peer_closed, back_read >>

\* one iteration of the file data loop (files here fit one buffer_size read)
SChunk ==
    /\ sh.pc = "chunk"
    /\ LET st == WalkSteps(source)[sh.i]
           bytes_read_chunk == Take(st.data, buffer_size)
       IN  IF s_cancel
           THEN sh' = [sh EXCEPT !.is_cancelled = TRUE, !.pc = "end"] /\ UNCHANGED wire
           ELSE /\ sendall_returns(bytes_read_chunk)
                /\ wire' = wire \o bytes_read_chunk
                /\ sh' = [sh EXCEPT !.i = @ + 1,
                              !.pc = IF sh.i = Len(WalkSteps(source)) THEN "end" ELSE "walk"]
    /\ UNCHANGED << sFrame, peer_closed, back_read >>

\* the chunk's sendall, under DATA_TRANSFER_TIMEOUT, does not complete: the
\* bytes the connection takes are sent, socket.timeout ends the file loop
SChunkTimeout ==
    /\ sh.pc = "chunk" /\ ~s_cancel
    /\ LET bytes_read_chunk == Take(WalkSteps(source)[sh.i].data, buffer_size)
       IN  /\ ~sendall_returns(bytes_read_chunk)
           /\ wire' = wire \o Take(bytes_read_chunk, SendCapacity - (Len(wire) - recvd))
    /\ sh' = [sh EXCEPT !.is_cancelled = TRUE, !.exc = "send", !.pc = "end"]
    /\ UNCHANGED << sFrame, peer_closed, back_read >>

\* a file listed by os.walk is no longer a regular file when its turn comes:
\* a warning, then the next filename
SWalkFileGone ==
    /\ sh.pc = "walk" /\ sh.i <= Len(WalkSteps(source)) /\ ~s_cancel
    /\ WalkSteps(source)[sh.i].kind = "file"
    /\ sh' = [sh EXCEPT !.i = @ + 1,
                        !.pc = IF sh.i = Len(WalkSteps(source)) THEN "end" ELSE "walk"]
    /\ UNCHANGED << sFrame, wire, peer_closed, back_read >>

\* the walk's end taken for the header's: on to the handshake with no
\* END_TRANSFER on the connection
SEndTransfer_without_end ==
    /\ sh.pc = "end"
    /\ sh' = IF sh.is_cancelled
             THEN [sh EXCEPT !.pc = "finally"]
             ELSE [sh EXCEPT !.walk_completed_naturally = TRUE, !.pc = "handshake"]
    /\ UNCHANGED << sFrame, wire, peer_closed, back_read >>

\* after the walk: walk_completed_naturally and the END_TRANSFER header
SEndTransfer ==
    /\ sh.pc = "end"
    /\ IF sh.is_cancelled
       THEN sh' = [sh EXCEPT !.pc = "finally"] /\ UNCHANGED wire
       ELSE /\ sendall_returns(end_transfer_header)
            /\ wire' = wire \o end_transfer_header
            /\ sh' = [sh EXCEPT !.walk_completed_naturally = TRUE, !.pc = "handshake"]
    /\ UNCHANGED << sFrame, peer_closed, back_read >>

\* a sendall on a connection the receiver has closed may raise
SSendFails ==
    /\ sock_closed
    /\ \/ sh.pc \in {"chunk", "handshake"}
       \/ sh.pc = "end" /\ ~sh.is_cancelled
       \/ sh.pc = "walk" /\ WalkSteps(source)[sh.i].kind # "dirpath"
    /\ sh' = [sh EXCEPT !.is_cancelled = TRUE, !.exc = "send", !.pc = "finally"]
    /\ UNCHANGED << sFrame, wire, peer_closed, back_read >>

(***************************************************************************)
(* perform_folder_handshake_client and the end of send_folder_task         *)
(***************************************************************************)
BackAvail == Len(back) - back_read

\* the request is sent first, before any look at the token
SHandshakeRequest ==
    /\ sh.pc = "handshake"
    /\ sendall_returns(HANDSHAKE_REQUEST_SIGNAL)
    /\ wire' = wire \o HANDSHAKE_REQUEST_SIGNAL
    /\ sh' = [sh EXCEPT !.pc = "wait"]
    /\ UNCHANGED << sFrame, peer_closed, back_read >>

SHandshakeCancel ==
    /\ sh.pc = "wait" /\ s_cancel
    /\ sh' = [sh EXCEPT !.is_cancelled = TRUE, !.exc = "CancelledError", !.pc = "finally"]
    /\ UNCHANGED << sFrame, wire, peer_closed, back_read >>

\* either complete response taken for the confirmation
SHandshakeRecv_any_signal ==
    /\ sh.pc = "wait" /\ ~s_cancel
    /\ \E k \in ChunkSizesOf(back, back_read, HANDSHAKE_READ_BUFFER_SIZE) :
          LET response_buffer == sh.response_buffer \o SubSeq(back, back_read + 1, back_read + k)
          IN  /\ back_read' = back_read + k
              /\ sh' = IF \/ Contains(response_buffer, HANDSHAKE_COMPLETE_OK_SIGNAL)
                          \/ Contains(response_buffer, HANDSHAKE_ERROR_SIGNAL)
                       THEN [sh EXCEPT !.response_buffer = response_buffer,
                                       !.transfer_success = TRUE, !.pc = "finally"]
                       ELSE [sh EXCEPT !.response_buffer = response_buffer]
    /\ UNCHANGED << sFrame, wire, peer_closed >>

\* one recv of the response loop and the look at response_buffer
SHandshakeRecv ==
    /\ sh.pc = "wait" /\ ~s_cancel
    /\ \E k \in ChunkSizesOf(back, back_read, HANDSHAKE_READ_BUFFER_SIZE) :
          LET response_buffer == sh.response_buffer \o SubSeq(back, back_read + 1, back_read + k)
          IN  /\ back_read' = back_read + k
              /\ sh' = IF Contains(response_buffer, HANDSHAKE_COMPLETE_OK_SIGNAL)
                       THEN [sh EXCEPT !.response_buffer = response_buffer,
                                       !.transfer_success = TRUE, !.pc = "finally"]
                       ELSE IF Contains(response_buffer, HANDSHAKE_ERROR_SIGNAL)
                       THEN [sh EXCEPT !.response_buffer = response_buffer,
                                       !.is_cancelled = TRUE, !.pc = "finally"]
                       ELSE IF Len(response_buffer) > BUFFER_SIZE_FOR_HEADER * 2
                       THEN [sh EXCEPT !.response_buffer = response_buffer,
                                       !.is_cancelled = TRUE, !.exc = "ValueError",
                                       !.pc = "finally"]
                       ELSE [sh EXCEPT !.response_buffer = response_buffer]
    /\ UNCHANGED << sFrame, wire, peer_closed >>

\* recv returns b"": the receiver closed the connection
SHandshakeClosed ==
    /\ sh.pc = "wait" /\ ~s_cancel /\ BackAvail = 0 /\ sock_closed
    /\ sh' = [sh EXCEPT !.is_cancelled = TRUE, !.exc = "ConnectionResetError", !.pc = "finally"]
    /\ UNCHANGED << sFrame, wire, peer_closed, back_read >>

\* HANDSHAKE_TIMEOUT expires without a complete response
SHandshakeTimeout ==
    /\ sh.pc = "wait" /\ ~s_cancel /\ BackAvail = 0 /\ ~sock_closed
    /\ sh' = [sh EXCEPT !.is_cancelled = TRUE, !.exc = "timeout", !.pc = "finally"]
    /\ UNCHANGED << sFrame, wire, peer_closed, back_read >>

\* the outer finally block: the socket is shut down and closed
SFinally ==
    /\ sh.pc = "finally"
    /\ peer_closed' = TRUE
    /\ sh' = [sh EXCEPT !.pc = "done"]
    /\ UNCHANGED << sFrame, wire, back_read >>

\* cancel_transfer_ui on the sending side
CancelTransferSender ==
    /\ sh.pc # "done" /\ ~s_cancel
    /\ s_cancel' = TRUE
    /\ UNCHANGED << connVars, r_cancel, fs_dirs, fs_files, rh, fh, disc, dclient, rlog, sh, source, srvVars >>

(***************************************************************************)
(* run_tcp_server_task: the accept loop, with the handler threads reduced  *)
(* to "running" / "finished".                                              *)
(***************************************************************************)
srvFrame == << connVars, r_cancel, s_cancel, fs_dirs, fs_files, rh, fh, disc, dclient, rlog, sh, source >>

\* top of the loop: is_transfer_active_cb() read directly from the worker thread
SrvCheck ==
    /\ srv_pc = "check"
    /\ srv_pc' = IF is_transfer_active THEN "check" ELSE "accept"
    /\ UNCHANGED << srvFrame, is_transfer_active, gui_queue, pending, handlers >>

\* what the accept loop does not touch of a connection it holds
srvHeld == << peer_closed, back, back_read, r_cancel, s_cancel, fs_dirs, fs_files, rh, fh,
             disc, dclient,
             rlog, sh, source >>

\* the first bytes a connecting client has sent when the sniff reads: none,
\* a folder stream's or a single file's
FirstBytes ==
    { << >>,
      FOLDER_PROTOCOL_PREFIX \o Sep,
      << "a", HEADER_SEPARATOR >> }

\* accept() returns a connection; on_transfer_started is scheduled on the GUI thread
SrvAccept ==
    /\ srv_pc = "accept" /\ pending > 0
    /\ pending' = pending - 1
    /\ \E first \in FirstBytes : wire' = first
    /\ recvd' = 0 /\ sock_closed' = FALSE
    /\ gui_queue' = Append(gui_queue, "on_transfer_started")
    /\ srv_pc' = "sniff"
    /\ UNCHANGED << srvHeld, is_transfer_active, handlers >>

\* accept() times out
SrvAcceptTimeout ==
    /\ srv_pc = "accept" /\ pending = 0
    /\ srv_pc' = "check"
    /\ UNCHANGED << srvFrame, is_transfer_active, gui_queue, pending, handlers >>

\* the sniff succeeds and a handler thread is started
SrvStartHandler ==
    /\ srv_pc = "sniff" /\ rh.pc = "idle" /\ WireAvail > 0
    /\ recvd' = Len(wire)
    /\ handlers' = Append(handlers, "running")
    /\ srv_pc' = "check"
    /\ UNCHANGED << srvHeld, wire, sock_closed, is_transfer_active, gui_queue, pending >>

\* a sniff without bytes taken for a single file's first bytes: the
\* connection goes to a handler thread
SrvSniffFailed_starts_handler ==
    /\ srv_pc = "sniff" /\ rh.pc = "idle" /\ WireAvail = 0
    /\ handlers' = Append(handlers, "running")
    /\ srv_pc' = "check"
    /\ UNCHANGED << srvFrame, is_transfer_active, gui_queue, pending >>

\* the sniff fails (timeout, reset, empty read): the connection is closed,
\* on_transfer_finished is scheduled, the loop continues
SrvSniffFailed ==
    /\ srv_pc = "sniff" /\ rh.pc = "idle" /\ WireAvail = 0
    /\ sock_closed' = TRUE
    /\ gui_queue' = Append(gui_queue, "on_transfer_finished")
    /\ srv_pc' = "check"
    /\ UNCHANGED << srvHeld, wire, recvd, is_transfer_active, pending, handlers >>

\* a handler thread that ends without scheduling on_transfer_finished
HandlerFinished_without_callback(i) ==
    /\ i \in DOMAIN handlers /\ handlers[i] = "running" /\ rh.pc = "idle"
    /\ handlers' = [handlers EXCEPT ![i] = "finished"]
    /\ UNCHANGED << srvFrame, srv_pc, is_transfer_active, gui_queue, pending >>

\* a handler thread reaches the end of its finally block
HandlerFinished(i) ==
    /\ i \in DOMAIN handlers /\ handlers[i] = "running" /\ rh.pc = "idle"
    /\ handlers' = [handlers EXCEPT ![i] = "finished"]
    /\ gui_queue' = Append(gui_queue, "on_transfer_finished")
    /\ UNCHANGED << srvFrame, srv_pc, is_transfer_active, pending >>

HandlerFinishes == \E i \in DOMAIN handlers : HandlerFinished(i)

Running == {i \in DOMAIN handlers : handlers[i] = "running"}

(***************************************************************************)
(* Inputs.                                                                 *)
(***************************************************************************)
(***************************************************************************)
(* Server discovery: run_tcp_server_task binding and closing its socket,   *)
(* the GUI's active_server_port, and listen_for_discovery_task.            *)
(***************************************************************************)
\* bytes.decode('utf-8', errors='ignore'): undecodable bytes are dropped
RECURSIVE decode_ignore(_)
decode_ignore(b) ==
    IF b = << >> THEN << >>
    ELSE IF b[1] \in NonUtf8Bytes THEN decode_ignore(Tail(b))
    ELSE << b[1] >> \o decode_ignore(Tail(b))

\* responses recorded per run of the listener
MaxResponses == 2

\* state after start_server_ui: events cleared, the server thread started
discInit ==
    [tcp_socket |-> "none", bound_port |-> None,
     active_server_port |-> None, is_server_running |-> TRUE,
     stop_event |-> FALSE, after |-> << >>,
     lpc |-> "none", message |-> << >>, sent |-> << >>]

\* found_server_info = None
NoServerInfo == [ip |-> "", port |-> None]

dclientInit ==
    [pc |-> "start", broadcasts |-> 0, cancel |-> FALSE, seen |-> << >>,
     found_server_info |-> NoServerInfo, warned |-> FALSE, raised |-> FALSE]

dFrame == << connVars, r_cancel, s_cancel, fs_dirs, fs_files, rh, fh, rlog, sh, source,
             srvVars >>

\* the port trial loop binds one of the ports (earlier ones may be in use)
TcpBind ==
    /\ disc.tcp_socket = "none" /\ ~disc.stop_event
    /\ \E i \in DOMAIN FILE_TRANSFER_PORTS :
          disc' = [disc EXCEPT !.tcp_socket = "bound",
                               !.bound_port = FILE_TRANSFER_PORTS[i],
                               !.after = Append(@, << "set_active_server_port",
                                                      FILE_TRANSFER_PORTS[i] >>)]
    /\ UNCHANGED << dFrame, dclient >>

\* the callbacks the finally block of run_tcp_server_task schedules
ServerStoppedCallbacks ==
    << << "on_server_stopped", None >>, << "set_active_server_port", None >> >>

\* no port could be bound, or the stop event was set during the trials
TcpBindFails ==
    /\ disc.tcp_socket = "none"
    /\ disc' = [disc EXCEPT !.tcp_socket = "closed",
                            !.after = @ \o ServerStoppedCallbacks]
    /\ UNCHANGED << dFrame, dclient >>

\* stop_server_ui -> stop_file_server: both stop events are set
StopServerUi ==
    /\ disc.is_server_running /\ ~disc.stop_event
    /\ disc' = [disc EXCEPT !.stop_event = TRUE]
    /\ UNCHANGED << dFrame, dclient >>

\* the accept loop sees the stop event; the finally block closes the
\* listening socket and schedules the callbacks
TcpServerExit ==
    /\ disc.tcp_socket = "bound" /\ disc.stop_event
    /\ disc' = [disc EXCEPT !.tcp_socket = "closed",
                            !.after = @ \o ServerStoppedCallbacks]
    /\ UNCHANGED << dFrame, dclient >>

\* the Tk event loop runs the oldest scheduled callback
GuiAfter ==
    /\ disc.after # << >>
    /\ LET cb == Head(disc.after)
           d1 == [disc EXCEPT !.after = Tail(@)]
       IN  disc' =
             IF cb[1] = "set_active_server_port"
             THEN [d1 EXCEPT !.active_server_port = cb[2],
                             !.after = IF cb[2] # None
                                       THEN Append(@, << "start_discovery_thread", None >>)
                                       ELSE @]
             ELSE IF cb[1] = "on_server_stopped"
             THEN [d1 EXCEPT !.is_server_running = FALSE]
             ELSE IF disc.is_server_running /\ ~disc.stop_event /\ disc.lpc = "none"
             THEN [d1 EXCEPT !.lpc = "start"]
             ELSE d1
    /\ UNCHANGED << dFrame, dclient >>

\* listen_for_discovery_task: the UDP socket is bound, or bind raises OSError
ListenStart ==
    /\ disc.lpc = "start"
    /\ \E ok \in BOOLEAN : disc' = [disc EXCEPT !.lpc = IF ok THEN "loop" ELSE "done"]
    /\ UNCHANGED << dFrame, dclient >>

\* while not stop_event.is_set()
ListenLoop ==
    /\ disc.lpc = "loop"
    /\ disc' = [disc EXCEPT !.lpc = IF disc.stop_event THEN "done" ELSE "recv"]
    /\ UNCHANGED << dFrame, dclient >>

\* recvfrom times out after 0.5 s
ListenTimeout ==
    /\ disc.lpc = "recv"
    /\ disc' = [disc EXCEPT !.lpc = "loop"]
    /\ UNCHANGED << dFrame, dclient >>

\* datagrams that reach the discovery port
Datagrams ==
    { DISCOVERY_MESSAGE,
      << " " >> \o DISCOVERY_MESSAGE \o << " " >>,
      << "~" >> \o DISCOVERY_MESSAGE,
      SERVER_RESPONSE_BASE,
      SubSeq(DISCOVERY_MESSAGE, 1, 4),
      << >> }

\* recvfrom returns a datagram
ListenRecv ==
    /\ disc.lpc = "recv" /\ Len(disc.sent) < MaxResponses
    /\ \E d \in Datagrams : disc' = [disc EXCEPT !.lpc = "message", !.message = d]
    /\ UNCHANGED << dFrame, dclient >>

\* the comparison with the discovery message and the response; sendto may
\* raise, which the loop's except swallows
ListenRespond ==
    /\ disc.lpc = "message"
    /\ LET message == Strip(decode_ignore(disc.message))
           active_server_port == disc.active_server_port
           d1 == [disc EXCEPT !.lpc = "loop", !.message = << >>]
       IN  IF message = DISCOVERY_MESSAGE /\ active_server_port # None
           THEN \E ok \in BOOLEAN :
                   disc' = IF ok
                           THEN [d1 EXCEPT !.sent = Append(@,
                                    [request |-> disc.message,
                                     response |-> SERVER_RESPONSE_BASE \o << " " >>
                                                    \o IntToStr(active_server_port),
                                     tcp_socket |-> disc.tcp_socket,
                                     bound_port |-> disc.bound_port])]
                           ELSE d1
           ELSE disc' = d1
    /\ UNCHANGED << dFrame, dclient >>

(***************************************************************************)
(* discover_file_server_task (client side).                                *)
(***************************************************************************)
\* str.split(): the parts between runs of whitespace
RECURSIVE SplitWs(_)
SplitWs(s) ==
    LET t == LStrip(s, Whitespace)
        hits == {i \in DOMAIN t : t[i] \in Whitespace}
        i == IF hits = {} THEN Len(t) + 1 ELSE CHOOSE k \in hits : \A j \in hits : k <= j
    IN  IF t = << >> THEN << >>
        ELSE << Slice(t, 1, i - 1) >> \o SplitWs(Drop(t, i - 1))

\* datagrams processed per discovery attempt
MaxDatagrams == 2

dcFrame == << dFrame, disc >>

\* the socket is made and the broadcast sent; an error of either is caught
\* by the outer except blocks
DiscoverBroadcast ==
    /\ dclient.pc = "start"
    /\ \E ok \in BOOLEAN :
          dclient' = IF ok THEN [dclient EXCEPT !.broadcasts = @ + 1, !.pc = "wait"]
                     ELSE [dclient EXCEPT !.pc = "finally"]
    /\ UNCHANGED dcFrame

\* the user cancels: cancel_transfer_event is set
DiscoverCancel ==
    /\ dclient.pc \in {"start", "wait", "recv"} /\ ~dclient.cancel
    /\ dclient' = [dclient EXCEPT !.cancel = TRUE]
    /\ UNCHANGED dcFrame

\* the test of the response loop (cancel event, DISCOVERY_TIMEOUT elapsed)
\* and, when the loop ends, the 'no server found' warning
DiscoverLoop ==
    /\ dclient.pc = "wait"
    /\ \E timed_out \in BOOLEAN :
          dclient' = IF dclient.cancel \/ timed_out
                     THEN [dclient EXCEPT !.warned = ~dclient.cancel, !.pc = "finally"]
                     ELSE [dclient EXCEPT !.pc = "recv"]
    /\ UNCHANGED dcFrame

\* recvfrom times out after CANCEL_CHECK_INTERVAL
DiscoverRecvTimeout ==
    /\ dclient.pc = "recv"
    /\ dclient' = [dclient EXCEPT !.pc = "wait"]
    /\ UNCHANGED dcFrame

\* datagrams that reach the client's socket, from two hosts
ResponsePayloads ==
    { SERVER_RESPONSE_BASE \o << " ", "5", "0", "0", "1" >>,
      << " " >> \o SERVER_RESPONSE_BASE \o << " ", "5", "0", "0", "2", " " >>,
      SERVER_RESPONSE_BASE,
      SERVER_RESPONSE_BASE \o << " ", "x" >>,
      SERVER_RESPONSE_BASE \o << " ", "5", "0", "0", "1", " ", "7" >>,
      SERVER_RESPONSE_BASE \o << " ", "-", "1" >>,
      SERVER_RESPONSE_BASE \o << "Q", " ", "5", "0", "0", "3" >>,
      DISCOVERY_MESSAGE,
      << "~" >>,
      << >> }

ResponseDatagrams == [ip : {"h1", "h2"}, payload : ResponsePayloads]

\* recvfrom returns a datagram: it is parsed, and a response that parses
\* ends the loop
DiscoverRecv ==
    /\ dclient.pc = "recv" /\ Len(dclient.seen) < MaxDatagrams
    /\ \E dg \in ResponseDatagrams :
          LET response == Strip(decode_ignore(dg.payload))
              parts == SplitWs(response)
              server_port == IF Len(parts) = 2 THEN ParseInt(parts[2])
                             ELSE [ok |-> FALSE, v |-> 0]
              d1 == [dclient EXCEPT !.seen = Append(@, dg)]
          IN  dclient' =
                IF StartsWith(response, SERVER_RESPONSE_BASE) /\ server_port.ok
                THEN [d1 EXCEPT !.found_server_info = [ip |-> dg.ip, port |-> server_port.v],
                                !.pc = "finally"]
                ELSE [d1 EXCEPT !.pc = "wait"]
    /\ UNCHANGED dcFrame

\* the finally block closes the socket and returns found_server_info
DiscoverFinally ==
    /\ dclient.pc = "finally"
    /\ dclient' = [dclient EXCEPT !.pc = "done"]
    /\ UNCHANGED dcFrame

InitialDirs == Prefixes(received_files_base_abs)

\* folders given to send_folder_task
SrcEmpty == [root |-> << "r" >>, walk |-> << WalkDir(<< >>, << >>, << >>) >>]
SrcZero == [root |-> << "r" >>,
            walk |-> << WalkDir(<< >>, << >>, << SrcFile(<< "a" >>, << >>) >>) >>]
SrcFileSep == [root |-> << "r" >>,
               walk |-> << WalkDir(<< >>, << >>, << SrcFile(<< "a" >>, << "x", "|" >>) >>) >>]
SrcSub == [root |-> << "r" >>,
           walk |-> << WalkDir(<< >>, << << "d" >> >>, << >>),
                       WalkDir(<< "d" >>, << >>, << SrcFile(<< "a" >>, << "x" >>) >>) >>]
SrcSpace == [root |-> << "a", " ", "b" >>,
             walk |-> << WalkDir(<< >>, << >>, << SrcFile(<< "a" >>, << "x" >>) >>) >>]
Sources == {SrcEmpty, SrcZero, SrcFileSep, SrcSub, SrcSpace}

\* a file that fills the connection up to END_TRANSFER, a file larger than
\* the connection takes, a file whose header exceeds BUFFER_SIZE_FOR_HEADER
Filler(n) == [i \in 1..n |-> "x"]
SrcFill == [root |-> << "r" >>,
            walk |-> << WalkDir(<< >>, << >>,
                                << SrcFile(<< "a" >>, Filler(SendCapacity - 92)) >>) >>]
SrcOver == [root |-> << "r" >>,
            walk |-> << WalkDir(<< >>, << >>,
                                << SrcFile(<< "a" >>, Filler(SendCapacity)) >>) >>]
SrcLongName == [root |-> << "r" >>,
                walk |-> << WalkDir(<< >>, << >>,
                                    << SrcFile(Filler(BUFFER_SIZE_FOR_HEADER), << "x" >>) >>) >>]
SendSources == Sources \cup {SrcFill, SrcOver, SrcLongName}

\* what an arbitrary peer may have written when the sender reads
AdvReplies ==
    { << >>,
      HANDSHAKE_COMPLETE_OK_SIGNAL,
      HANDSHAKE_ERROR_SIGNAL,
      HANDSHAKE_ERROR_SIGNAL \o HANDSHAKE_COMPLETE_OK_SIGNAL,
      << "T", "R", "A", "N", "S" >>,
      << "X", "|" >> \o HANDSHAKE_COMPLETE_OK_SIGNAL,
      << "X", "|", "X" >> }

\* frames an arbitrary peer may send
RootR == Header2(FOLDER_HEADER_TYPE_FOLDER, << "r", "/" >>)
TotalInfo(c, n) ==
    Header2(FOLDER_HEADER_TYPE_TOTAL_INFO,
            IntToStr(c) \o << TOTAL_INFO_COUNT_SIZE_SEPARATOR >> \o IntToStr(n))
FileA(data) == file_header(<< "r", "/", "a" >>, Len(data)) \o data
FolderD == subdir_header(<< "r", "/", "d", "/" >>)
UnknownFrame == Header1(<< "X" >>)
RequestFrame == HANDSHAKE_REQUEST_SIGNAL \o Sep
End == end_transfer_header

AdvStreams ==
    { << >>,
      << "X", "|" >>,
      RootR \o TotalInfo(2, 1) \o FileA(<< "|" >>) \o End \o HANDSHAKE_REQUEST_SIGNAL,
      RootR \o TotalInfo(2, 2) \o FileA(<< "|" >>) \o End,
      RootR \o TotalInfo(3, 1) \o FileA(<< "x" >>) \o End,
      RootR \o FileA(<< "x" >>) \o End,
      RootR \o TotalInfo(3, 2) \o FileA(<< "x" >>) \o FileA(<< "y" >>) \o End,
      RootR \o TotalInfo(3, 0) \o FolderD \o FileA(<< >>) \o End,
      RootR \o TotalInfo(2, 1) \o FileA(<< "x" >>) \o RequestFrame,
      RootR \o RequestFrame,
      RootR \o TotalInfo(1, 0),
      RootR \o TotalInfo(2, 2) \o file_header(<< "r", "/", "a" >>, 2) \o << "x" >>,
      RootR \o TotalInfo(2, 1) \o UnknownFrame \o FileA(<< "x" >>) \o End,
      RootR \o Header2(FOLDER_HEADER_TYPE_TOTAL_INFO, << "x" >>),
      RootR \o TotalInfo(1, 0) \o Header1(<< "~" >>),
      RootR \o TotalInfo(2, 0) \o FileA(<< >>)
            \o Header2(FOLDER_HEADER_TYPE_FILE, << "r", "/", "b" >>) \o << "-", "1", "|" >>,
      Header2(FOLDER_HEADER_TYPE_FILE, << "r" >>),
      RootR \o End,
      RootR \o FolderD \o End,
      RootR \o TotalInfo(2, 2) \o FileA(<< "x", "|" >>) \o End,
      RootR \o TotalInfo(2, 1) \o FileA(<< "x" >>) \o HANDSHAKE_REQUEST_SIGNAL,
      End \o RootR,
      TotalInfo(1, 0) \o RootR,
      Header2(<< "X" >>, << "r", "/" >>) \o TotalInfo(1, 0) \o End }

\* path strings of at most MaxPathLen tokens
PathTokens == { << "r" >>, << "a" >>, << "." >>, << "/" >>, << "\\" >> }

RECURSIVE PathsOfLen(_)
PathsOfLen(n) ==
    IF n = 0 THEN { << >> }
    ELSE {p \o t : p \in PathsOfLen(n - 1), t \in PathTokens}

PathStrings == UNION {PathsOfLen(n) : n \in 0..MaxPathLen}

\* a root header, TOTAL_INFO, one FOLDER or FILE item with the path, END
ItemStream(type, p) ==
    RootR \o TotalInfo(2, 1)
    \o (IF type = FOLDER_HEADER_TYPE_FILE THEN file_header(p, 1) \o << "x" >>
        ELSE subdir_header(p))
    \o End

\* a root header with the path, then a file below the name it was given
RootStream(p) ==
    Header2(FOLDER_HEADER_TYPE_FOLDER, p) \o TotalInfo(2, 1)
    \o file_header(sanitized_root_name(p) \o << "/", "a" >>, 1) \o << "x" >> \o End

\* item paths below the root r with a '.' or '..' segment at the front, in
\* the middle and at the end
DotPaths ==
    { << "r", "/", ".", "/", "a" >>,
      << ".", "/", "r", "/", "a" >>,
      << "r", "/", "a", "/", "." >>,
      << "r", "/", "d", "/", ".", ".", "/", "a" >> }

PathStreams ==
    {ItemStream(type, p) : type \in ItemTypes, p \in PathStrings \cup DotPaths}
    \cup {RootStream(p) : p \in UNION {PathsOfLen(n) : n \in 0..(MaxPathLen - 1)}}

(***************************************************************************)
(* Specifications.                                                         *)
(***************************************************************************)
\* one connection, accepted by the receiver, on which send_folder_task sends
InitCommon ==
    /\ fh = fhInit
    /\ disc = discInit /\ dclient = dclientInit
    /\ recvd = 0 /\ back = << >> /\ back_read = 0 /\ sock_closed = FALSE
    /\ r_cancel = FALSE /\ s_cancel = FALSE
    /\ fs_dirs = InitialDirs /\ fs_files = << >>
    /\ rlog = << >>
    /\ is_transfer_active = FALSE

Init ==
    /\ InitCommon
    /\ wire = << >> /\ peer_closed = FALSE
    /\ source \in Sources
    /\ sh = shInit
    /\ rh = rhInit
    /\ srv_pc = "sniff" /\ gui_queue = << "on_transfer_started" >>
    /\ pending = 0 /\ handlers = << >>

Next ==
    \/ SConnect \/ SWalk \/ SChunk \/ SEndTransfer \/ SSendFails
    \/ SHandshakeRequest \/ SHandshakeCancel \/ SHandshakeRecv
    \/ SHandshakeClosed \/ SHandshakeTimeout \/ SFinally
    \/ CancelTransferSender
    \/ Sniff \/ SniffFailed \/ RLoop \/ RAfterLoop
    \/ RHeaderCancel \/ RHeaderRecv \/ RHeaderPeerClosed \/ RHeaderTimeout
    \/ RPrefix \/ RType \/ RTotalInfoData \/ RPath \/ RSize
    \/ RDataCancel \/ RDataComplete \/ RDataRecv \/ RDataPeerClosed \/ RDataTimeout
    \/ RHandshake \/ RFinally
    \/ GuiCallback \/ CancelTransferReceiver

Spec == Init /\ [][Next]_vars

\* one connection on which an arbitrary peer has written its bytes
InitAdv ==
    /\ InitCommon
    /\ wire \in AdvStreams /\ peer_closed \in BOOLEAN
    /\ source = SrcEmpty
    /\ sh = [shInit EXCEPT !.pc = "done"]
    /\ rh = rhInit
    /\ srv_pc = "sniff" /\ gui_queue = << "on_transfer_started" >>
    /\ pending = 0 /\ handlers = << >>

NextAdv ==
    \/ Sniff \/ SniffFailed \/ RLoop \/ RAfterLoop
    \/ RHeaderCancel \/ RHeaderRecv \/ RHeaderPeerClosed \/ RHeaderTimeout
    \/ RPrefix \/ RType \/ RTotalInfoData \/ RPath \/ RSize
    \/ RDataCancel \/ RDataComplete \/ RDataRecv \/ RDataPeerClosed \/ RDataTimeout
    \/ RHandshake \/ RFinally
    \/ GuiCallback \/ CancelTransferReceiver

SpecAdv == InitAdv /\ [][NextAdv]_vars

\* the steps of the folder handler's thread that test the loop condition,
\* wait in a recv, send the response or run the finally block
RControl ==
    \/ RLoop \/ RAfterLoop
    \/ RHeaderCancel \/ RHeaderRecv \/ RHeaderPeerClosed \/ RHeaderTimeout
    \/ RDataCancel \/ RDataComplete \/ RDataRecv \/ RDataPeerClosed \/ RDataTimeout
    \/ RHandshake \/ RFinally

\* its steps that take a header segment out of the buffer
RParse == RPrefix \/ RType \/ RTotalInfoData \/ RPath \/ RSize

\* ENABLED <<RParse>>_vars: the guard the five steps share; each of them
\* moves rh.pc
RParseEnabled == rh.pc \in HeaderPcs /\ HasSep(rh.received_buffer)

\* the handler's thread keeps being scheduled: every recv returns within its
\* timeout and no other call of the handler blocks.  The thread is at one
\* position at a time, so weak fairness of its steps is weak fairness of
\* RControl and of RParse; the latter is written with its enabling
\* condition spelled out.
SpecAdvLive ==
    /\ SpecAdv
    /\ WF_vars(RControl)
    /\ ([]<>(~RParseEnabled) \/ []<><<RParse>>_vars)

\* one connection whose whole stream arrives with the first recv
InitPath ==
    /\ InitCommon
    /\ wire \in PathStreams /\ peer_closed = TRUE
    /\ source = SrcEmpty
    /\ sh = [shInit EXCEPT !.pc = "done"]
    /\ rh = rhInit
    /\ srv_pc = "sniff" /\ gui_queue = << "on_transfer_started" >>
    /\ pending = 0 /\ handlers = << >>

NextPath ==
    \/ SniffWhole \/ RLoop \/ RAfterLoop
    \/ RPrefix \/ RType \/ RTotalInfoData \/ RPath \/ RSize
    \/ RDataComplete \/ RHandshake \/ RFinally

SpecPath == InitPath /\ [][NextPath]_vars

\* send_folder_task on a connection to an arbitrary peer: the peer reads
\* nothing, has written any of AdvReplies and may have closed
InitSend ==
    /\ fh = fhInit
    /\ disc = discInit /\ dclient = dclientInit
    /\ recvd = 0 /\ back \in AdvReplies /\ back_read = 0 /\ sock_closed \in BOOLEAN
    /\ r_cancel = FALSE /\ s_cancel = FALSE
    /\ fs_dirs = InitialDirs /\ fs_files = << >>
    /\ rlog = << >>
    /\ is_transfer_active = FALSE
    /\ wire = << >> /\ peer_closed = FALSE
    /\ source \in SendSources
    /\ sh = shInit
    /\ rh = [rhInit EXCEPT !.pc = "idle"]
    /\ srv_pc = "check" /\ gui_queue = << >>
    /\ pending = 0 /\ handlers = << >>

\* the steps of the sending thread
SendThread ==
    \/ SConnect \/ SWalk \/ SWalkFileGone \/ SChunk \/ SChunkTimeout
    \/ SEndTransfer \/ SSendFails
    \/ SHandshakeRequest \/ SHandshakeCancel \/ SHandshakeRecv
    \/ SHandshakeClosed \/ SHandshakeTimeout \/ SFinally

NextSend == SendThread \/ CancelTransferSender

\* the sending thread runs as long as it has a step to take
SpecSend == InitSend /\ [][NextSend]_vars /\ WF_vars(SendThread)

\* what a peer may send to the single-file handler: filename|filesize|
\* buffersize| and the file's bytes, complete, cut short or malformed
FileHeader(name, size, bs) == name \o Sep \o size \o Sep \o bs \o Sep
FileStreams ==
    { << >>,
      FileHeader(<< "a" >>, << "2" >>, << "4" >>) \o << "x", "y" >>,
      FileHeader(<< "a" >>, << "2" >>, << "4" >>) \o << "x" >>,
      FileHeader(<< "a" >>, << "2" >>, << "4" >>),
      FileHeader(<< "a" >>, << "3" >>, << "4" >>) \o << "x", "y" >>,
      FileHeader(<< "a" >>, << "0" >>, << "4" >>),
      FileHeader(<< "d", "/", "a" >>, << "1" >>, << "z" >>) \o << "x", "y" >>,
      FileHeader(<< "a" >>, << "z" >>, << "4" >>),
      FileHeader(<< ".", "." >>, << "1" >>, << "4" >>) \o << "x" >>,
      << "a", "|", "2" >>,
      << "a", "~", "|" >> }

\* one connection that is not a folder transfer: the sniff, then
\* handle_client_connection against any of FileStreams
InitFile ==
    /\ InitCommon
    /\ wire \in FileStreams /\ peer_closed \in BOOLEAN
    /\ source = SrcEmpty
    /\ sh = [shInit EXCEPT !.pc = "done"]
    /\ rh = rhInit
    /\ srv_pc = "sniff" /\ gui_queue = << "on_transfer_started" >>
    /\ pending = 0 /\ handlers = << >>

NextFile ==
    \/ Sniff \/ SniffFailed \/ FStart
    \/ FHeaderCancel \/ FHeaderRecv \/ FHeaderPeerClosed \/ FHeaderTimeout
    \/ FFilename \/ FFilesize \/ FBuffersize
    \/ FDataCancel \/ FDataRecv \/ FDataPeerClosed
    \/ FFinally \/ GuiCallback \/ CancelTransferReceiver

SpecFile == InitFile /\ [][NextFile]_vars

\* files left by earlier transfers: a and a_1 in the session directory r of
\* the folder receiver, a in the directory of the single-file receiver
OldFolderFile == Append(Append(received_files_base_abs, << "r" >>), << "a" >>)
OldSingleFile == Append(single_file_base_abs, << "a" >>)
OldFiles ==
    [q \in {OldFolderFile, Renamed(OldFolderFile, 1), OldSingleFile} |-> << "o" >>]

\* one connection of either kind, into receive directories that are empty
\* or hold the files of earlier transfers
InitSave ==
    /\ fh = fhInit
    /\ disc = discInit /\ dclient = dclientInit
    /\ recvd = 0 /\ back = << >> /\ back_read = 0 /\ sock_closed = FALSE
    /\ r_cancel = FALSE /\ s_cancel = FALSE
    /\ \/ fs_dirs = InitialDirs /\ fs_files = << >>
       \/ /\ fs_dirs = InitialDirs \cup Prefixes(dirname(OldFolderFile))
                                    \cup Prefixes(single_file_base_abs)
          /\ fs_files = OldFiles
    /\ rlog = << >>
    /\ is_transfer_active = FALSE
    /\ wire \in AdvStreams \cup FileStreams /\ peer_closed \in BOOLEAN
    /\ source = SrcEmpty
    /\ sh = [shInit EXCEPT !.pc = "done"]
    /\ rh = rhInit
    /\ srv_pc = "sniff" /\ gui_queue = << "on_transfer_started" >>
    /\ pending = 0 /\ handlers = << >>

NextSave == NextAdv \/ NextFile

SpecSave == InitSave /\ [][NextSave]_vars

\* a server started by start_server_ui, datagrams arriving at its
\* discovery port, and the user stopping it
InitDisc ==
    /\ InitCommon
    /\ wire = << >> /\ peer_closed = FALSE
    /\ source = SrcEmpty
    /\ sh = [shInit EXCEPT !.pc = "done"]
    /\ rh = rhInit
    /\ srv_pc = "check" /\ gui_queue = << >>
    /\ pending = 0 /\ handlers = << >>

NextDisc ==
    \/ TcpBind \/ TcpBindFails \/ StopServerUi \/ TcpServerExit \/ GuiAfter
    \/ ListenStart \/ ListenLoop \/ ListenTimeout \/ ListenRecv \/ ListenRespond

SpecDisc == InitDisc /\ [][NextDisc]_vars

\* one discovery attempt of a client, with any datagrams arriving
NextDiscover ==
    \/ DiscoverBroadcast \/ DiscoverCancel \/ DiscoverLoop \/ DiscoverRecvTimeout
    \/ DiscoverRecv \/ DiscoverFinally

SpecDiscover == InitDisc /\ [][NextDiscover]_vars

\* token|rest for read_header_from_socket: short tokens with and without
\* following bytes, and a token of max_buffer bytes
HdrStreams ==
    { Sep,
      << "a" >> \o Sep,
      << "a", "b" >> \o Sep \o << "x" >>,
      << " ", "a", " " >> \o Sep \o << "b" >> \o Sep \o << "c" >>,
      << "a", "b", "c" >> \o Sep \o Sep \o << "x", "y" >>,
      FOLDER_PROTOCOL_PREFIX \o Sep \o FOLDER_HEADER_TYPE_FILE \o Sep,
      Filler(max_buffer) \o Sep }

\* one call of read_header_from_socket (the single-file handler's first):
\* the peer has sent token|rest, the first recvd bytes of it were obtained
\* by earlier reads and are the call's initial_buffer
InitHdr ==
    /\ wire \in HdrStreams /\ peer_closed = FALSE
    /\ recvd \in 0..Len(wire)
    /\ fh = [fhInit EXCEPT !.pc = "filename", !.current_remaining_buffer = Take(wire, recvd)]
    /\ disc = discInit /\ dclient = dclientInit
    /\ back = << >> /\ back_read = 0 /\ sock_closed = FALSE
    /\ r_cancel = FALSE /\ s_cancel = FALSE
    /\ fs_dirs = InitialDirs /\ fs_files = << >>
    /\ rlog = << >>
    /\ is_transfer_active = TRUE
    /\ source = SrcEmpty
    /\ sh = [shInit EXCEPT !.pc = "done"]
    /\ rh = [rhInit EXCEPT !.pc = "file_handler"]
    /\ srv_pc = "check" /\ gui_queue = << >>
    /\ pending = 0 /\ handlers = << "running" >>

NextHdr == FHeaderRecv \/ FFilename

SpecHdr == InitHdr /\ [][NextHdr]_vars

\* streams in which a FOLDER header is issued a second time: the root
\* header (with and without the trailing slash), a subfolder header (with
\* and without the trailing slash, before and after a file was put in it)
DupStreams ==
    { RootR \o TotalInfo(3, 0) \o RootR \o RootR \o End,
      Header2(FOLDER_HEADER_TYPE_FOLDER, << "r" >>) \o TotalInfo(2, 0)
          \o Header2(FOLDER_HEADER_TYPE_FOLDER, << "r" >>) \o End,
      RootR \o TotalInfo(4, 1) \o FolderD
          \o file_header(<< "r", "/", "d", "/", "a" >>, 1) \o << "x" >>
          \o FolderD \o End,
      RootR \o TotalInfo(3, 0) \o subdir_header(<< "r", "/", "d" >>)
          \o subdir_header(<< "r", "/", "d" >>) \o End,
      RootR \o TotalInfo(4, 1) \o FileA(<< "x" >>)
          \o subdir_header(<< "r", "/", "d", "/", "e", "/" >>)
          \o subdir_header(<< "r", "/", "d", "/", "e", "/" >>) \o End,
      RootR \o TotalInfo(4, 0) \o FolderD \o FileA(<< >>) \o FolderD \o End }

\* one connection whose whole stream, with repeated FOLDER headers, arrives
\* with the first recv
InitDup ==
    /\ InitCommon
    /\ wire \in DupStreams /\ peer_closed = TRUE
    /\ source = SrcEmpty
    /\ sh = [shInit EXCEPT !.pc = "done"]
    /\ rh = rhInit
    /\ srv_pc = "sniff" /\ gui_queue = << "on_transfer_started" >>
    /\ pending = 0 /\ handlers = << >>

NextDup ==
    \/ SniffWhole \/ RLoop \/ RAfterLoop
    \/ RPrefix \/ RType \/ RTotalInfoData \/ RPath \/ RSize
    \/ RDataComplete \/ RHandshake \/ RFinally

SpecDup == InitDup /\ [][NextDup]_vars

\* a complete folder stream: root, totals, one file, END_TRANSFER, request
GoodStream ==
    RootR \o TotalInfo(2, 1) \o FileA(<< "x" >>) \o End \o HANDSHAKE_REQUEST_SIGNAL

\* accept() returns the next client's connection once the handler of the
\* previous one has ended: a new socket, a new handler's locals and trace;
\* the server's cancel_transfer_event, the GUI and the disk are the same
SrvAcceptNext ==
    /\ srv_pc = "accept" /\ pending > 0 /\ rh.pc \in {"done", "refused"}
    /\ pending' = pending - 1
    /\ wire' = GoodStream /\ recvd' = 0 /\ peer_closed' = FALSE
    /\ back' = << >> /\ back_read' = 0 /\ sock_closed' = FALSE
    /\ rh' = rhInit /\ rlog' = << >>
    /\ gui_queue' = Append(gui_queue, "on_transfer_started")
    /\ srv_pc' = "sniff"
    /\ UNCHANGED << r_cancel, s_cancel, fs_dirs, fs_files, fh, disc, dclient, sh, source,
                    is_transfer_active, handlers >>

\* cancel_transfer_ui pressed before the second client is accepted
CancelFirstTransfer == pending > 0 /\ CancelTransferReceiver

\* a running server receiving from two clients, one after the other; the
\* first may stop sending or close at any point; the user may press Cancel
\* while the first transfer is active
InitTwo ==
    /\ InitCommon
    /\ wire \in {GoodStream, RootR \o TotalInfo(2, 1), << >>,
                  RootR \o TotalInfo(2, 2) \o file_header(<< "r", "/", "a" >>, 2) \o << "x" >>}
    /\ peer_closed \in BOOLEAN
    /\ source = SrcEmpty
    /\ sh = [shInit EXCEPT !.pc = "done"]
    /\ rh = rhInit
    /\ srv_pc = "sniff" /\ gui_queue = << "on_transfer_started" >>
    /\ pending = 1 /\ handlers = << >>

NextTwo ==
    \/ SrvCheck \/ SrvAcceptNext \/ SrvAcceptTimeout
    \/ Sniff \/ SniffFailed \/ RLoop \/ RAfterLoop
    \/ RHeaderCancel \/ RHeaderRecv \/ RHeaderPeerClosed \/ RHeaderTimeout
    \/ RPrefix \/ RType \/ RTotalInfoData \/ RPath \/ RSize
    \/ RDataCancel \/ RDataComplete \/ RDataRecv \/ RDataPeerClosed \/ RDataTimeout
    \/ RHandshake \/ RFinally
    \/ GuiCallback \/ CancelFirstTransfer

SpecTwo == InitTwo /\ [][NextTwo]_vars

\* a single file of one byte announced under every name of PathStrings
NameStreams == {FileHeader(name, << "1" >>, << "4" >>) \o << "x" >> : name \in PathStrings}

\* one single-file connection whose whole stream arrives with the first
\* recv; received_files does not exist yet, or holds an earlier file
InitName ==
    /\ fh = fhInit
    /\ disc = discInit /\ dclient = dclientInit
    /\ recvd = 0 /\ back = << >> /\ back_read = 0 /\ sock_closed = FALSE
    /\ r_cancel = FALSE /\ s_cancel = FALSE
    /\ \/ fs_dirs = InitialDirs /\ fs_files = << >>
       \/ /\ fs_dirs = InitialDirs \cup Prefixes(single_file_base_abs)
          /\ fs_files = [q \in {OldSingleFile} |-> << "o" >>]
    /\ rlog = << >>
    /\ is_transfer_active = FALSE
    /\ wire \in NameStreams /\ peer_closed = TRUE
    /\ source = SrcEmpty
    /\ sh = [shInit EXCEPT !.pc = "done"]
    /\ rh = rhInit
    /\ srv_pc = "sniff" /\ gui_queue = << "on_transfer_started" >>
    /\ pending = 0 /\ handlers = << >>

NextName == SniffWhole \/ FStart \/ FFilename \/ FFilesize \/ FBuffersize \/ FFinally

SpecName == InitName /\ [][NextName]_vars

\* one connection between send_folder_task and the folder receiver, with
\* files of the walk that may be gone when their turn comes
NextBoth == Next \/ SWalkFileGone

SpecBoth == Init /\ [][NextBoth]_vars

\* the accept loop with MaxConn clients connecting
InitSrv ==
    /\ InitCommon
    /\ wire = << >> /\ peer_closed = FALSE
    /\ source = SrcEmpty
    /\ sh = [shInit EXCEPT !.pc = "done"]
    /\ rh = [rhInit EXCEPT !.pc = "idle"]
    /\ srv_pc = "check" /\ gui_queue = << >>
    /\ pending = MaxConn /\ handlers = << >>

NextSrv ==
    \/ SrvCheck \/ SrvAccept \/ SrvAcceptTimeout \/ SrvStartHandler \/ SrvSniffFailed
    \/ HandlerFinishes \/ GuiCallback

SpecSrv == InitSrv /\ [][NextSrv]_vars

\* the accept loop's thread
SrvLoop == SrvCheck \/ SrvAccept \/ SrvAcceptTimeout \/ SrvStartHandler \/ SrvSniffFailed

\* the accept loop's thread and the Tk event loop keep running; a handler
\* thread may take for ever
SpecSrvLive == SpecSrv /\ WF_vars(SrvLoop) /\ WF_vars(GuiCallback)

(***************************************************************************)
(* Properties.                                                             *)
(***************************************************************************)
LogKinds(kinds) == {i \in DOMAIN rlog : rlog[i].kind \in kinds}
EndReceived == LogKinds({"END"}) # {}
RequestFrameReceived == LogKinds({"HSREQ"}) # {}
StrictlyInside(d, p) == Len(p) > Len(d) /\ SubSeq(p, 1, Len(d)) = d

\* C1: at any moment at most one connection handler is running, whatever the
\* interleaving of the accept loop, the handlers and the GUI callbacks
C1_AtMostOneHandler == Cardinality(Running) <= 1

\* C2: a folder sent by send_folder_task over a connection that delivers all
\* bytes, with no cancellation and no timeout, is accepted header by header,
\* answered with TRANSFER_COMPLETE_OK and reported as a success by the sender
C2_DeliveredFolderSucceeds ==
    ( /\ sh.pc = "done" /\ rh.pc = "done"
      /\ ~s_cancel /\ ~r_cancel
      /\ rh.exc # "timeout" /\ sh.exc \notin {"timeout", "send"} )
    => (rh.exc = "none" /\ rh.reply = "OK" /\ sh.transfer_success)

\* C3: after END_TRANSFER the reply is TRANSFER_COMPLETE_OK exactly when a
\* TOTAL_INFO header supplied the totals and both the item count and the byte
\* total equal them; otherwise it is TRANSFER_ERROR
C3_ReplyMatchesVerification ==
    (rh.reply # "none" /\ EndReceived) =>
        /\ rh.reply \in {"OK", "ERROR"}
        /\ (rh.reply = "OK") <=>
              \E i \in LogKinds({"TOTAL_INFO"}) :
                  /\ rh.items_received_count = rlog[i].n
                  /\ rh.received_bytes_total = rlog[i].m

C3_Witness ==
    /\ rh.reply = "OK" /\ EndReceived
    /\ \E i \in LogKinds({"FILE"}) : rlog[i].n > 0

\* C4: the receiver sends its reply only after the bytes of the sender's
\* IS_TRANSFER_COMPLETE? request have been received on the connection
RequestReceived == Contains(Take(wire, recvd), HANDSHAKE_REQUEST_SIGNAL)

C4_ReplyAfterRequest == (rh.reply # "none") => RequestReceived

\* C5: when the handler ends without success, no file of declared size > 0
\* that was opened and not completely written is left on disk
C5_PartialFileRemoved ==
    (rh.pc = "done" /\ ~rh.transfer_success) =>
        \A i \in LogKinds({"FILE"}) :
            (rlog[i].n > 0 /\ rlog[i].path \in DOMAIN fs_files)
                => Len(fs_files[rlog[i].path]) = rlog[i].n

\* C6: whatever the path string of a FOLDER or FILE header, everything the
\* receiver creates lies inside the session root, itself a child of the
\* base directory; every accepted item resolves strictly inside the session
\* root (the repeated root header resolves to the session root itself and
\* creates nothing); a header that is not accepted aborts the connection
C6_CreatedInsideSessionRoot ==
    /\ \A p \in (fs_dirs \cup DOMAIN fs_files) \ InitialDirs :
          /\ rh.current_save_dir # NoPath
          /\ p = rh.current_save_dir \/ StrictlyInside(rh.current_save_dir, p)
    /\ rh.current_save_dir # NoPath =>
          /\ dirname(rh.current_save_dir) = received_files_base_abs
          /\ rh.current_save_dir \in fs_dirs
    /\ \A i \in LogKinds({"FOLDER", "FILE"}) :
          \/ StrictlyInside(rh.current_save_dir, rlog[i].path)
          \/ /\ rlog[i].kind = "FOLDER"
             /\ rlog[i].path = rh.current_save_dir
             /\ Strip(rlog[i].raw) = rh.session_root_name \o << "/" >>
    /\ (rh.pc = "done" /\ rh.exc = "none") => LogKinds({"FOLDER", "FILE"}) # {}

C6_Witness ==
    /\ rh.pc = "done"
    /\ \E i \in LogKinds({"FILE"}) :
          /\ Find(rlog[i].raw, "\\") > 0
          /\ rlog[i].path \in DOMAIN fs_files

\* C7: a reply is sent only when END_TRANSFER was received and the
\* cancellation token is not set
ReplySent == rh.reply = "none" /\ rh'.reply # "none"

RequestSent == sh.pc = "handshake" /\ sh'.pc = "wait"

C8_NoRequestAfterCancel == [][s_cancel => ~RequestSent]_vars

\* C9: for any segmentation of the stream the receiver consumes it once and
\* in order: the carry-over buffer is the received bytes not yet consumed, a
\* file holds the bytes that follow its size separator, never more than its
\* declared size and exactly that many once it is complete, and the byte
\* after them is where the next header is read
Consuming ==
    /\ rh.pc \in HeaderPcs \cup {"loop", "filedata"}
    /\ rh.current_state <= STATE_RECEIVING_FILE_DATA

C9_State ==
    /\ Consuming =>
          /\ Len(rh.received_buffer) <= recvd
          /\ rh.received_buffer = SubSeq(wire, StreamPos(rh) + 1, recvd)
    /\ \A i \in LogKinds({"FILE"}) :
          rlog[i].path \in DOMAIN fs_files =>
             LET content == fs_files[rlog[i].path]
             IN  /\ Len(content) <= rlog[i].n
                 /\ content = SubSeq(wire, rlog[i].off + 1, rlog[i].off + Len(content))
                 /\ (i < Len(rlog) /\ rh.exc = "none") => Len(content) = rlog[i].n
    /\ (Consuming /\ rh.current_state = STATE_RECEIVING_FILE_DATA) =>
          /\ rlog[Len(rlog)].kind = "FILE"
          /\ StreamPos(rh) = rlog[Len(rlog)].off + rh.current_file_bytes_received
          /\ Len(fs_files[rh.current_file_path]) = rh.current_file_bytes_received

FileCompleted ==
    /\ rh.current_state = STATE_RECEIVING_FILE_DATA
    /\ rh'.current_state = STATE_WAITING_FOR_ITEM_HEADER

C9_ExactlyOnceInOrder ==
    /\ []C9_State
    /\ [][FileCompleted =>
            /\ StreamPos(rh)' = rlog[Len(rlog)].off + rlog[Len(rlog)].n
            /\ fs_files'[rlog[Len(rlog)].path]
                  = SubSeq(wire, rlog[Len(rlog)].off + 1,
                           rlog[Len(rlog)].off + rlog[Len(rlog)].n)]_vars

C9_Witness ==
    /\ EndReceived
    /\ \E i \in LogKinds({"FILE"}) :
          /\ rlog[i].path \in DOMAIN fs_files
          /\ fs_files[rlog[i].path] = << "|" >>

\* C10: received_bytes_total never decreases, and when END_TRANSFER is
\* processed it equals the sum of the declared sizes of the accepted FILE
\* headers
RECURSIVE SumFileSizes(_)
SumFileSizes(log) ==
    IF log = << >> THEN 0
    ELSE (IF log[1].kind = "FILE" THEN log[1].n ELSE 0) + SumFileSizes(Tail(log))

C10_BytesTotal ==
    /\ [](\A i \in LogKinds({"END"}) : rlog[i].m = SumFileSizes(SubSeq(rlog, 1, i)))
    /\ [][rh'.received_bytes_total >= rh.received_bytes_total]_vars

C10_Witness ==
    \E i \in LogKinds({"END"}) : rlog[i].m = 2 /\ Cardinality(LogKinds({"FILE"})) = 2

\* C11: when FOLDER, FILE or END_TRANSFER follows the root header in place
\* of TOTAL_INFO, the step that reads that header type raises nothing and
\* moves on to the item headers, and the reply sent after END_TRANSFER is
\* TRANSFER_ERROR, also when every item arrived intact
TotalInfoSkipped ==
    /\ LogKinds({"TOTAL_INFO"}) = {}
    /\ LogKinds({"FOLDER", "FILE", "END"}) # {}

TypeReadInPlaceOfTotalInfo ==
    /\ rh.pc = "type"
    /\ rh.current_state = STATE_WAITING_FOR_TOTAL_INFO_HEADER
    /\ HasSep(rh.received_buffer)
    /\ read_header(rh.received_buffer).token
          \in ItemTypes \cup {FOLDER_HEADER_TYPE_END_TRANSFER}
    /\ rh' # rh

C11_SkippedTotalInfoFailsVerification ==
    /\ []((TotalInfoSkipped /\ EndReceived /\ rh.reply # "none") => rh.reply = "ERROR")
    /\ []((TotalInfoSkipped /\ EndReceived) => ~rh.transfer_success)
    /\ [][TypeReadInPlaceOfTotalInfo =>
            /\ rh'.exc = "none"
            /\ rh'.current_state = STATE_WAITING_FOR_ITEM_HEADER]_vars

C11_Witness ==
    /\ TotalInfoSkipped /\ EndReceived
    /\ rh.reply = "ERROR" /\ rh.exc = "none"
    /\ \E i \in LogKinds({"FILE"}) :
          /\ rlog[i].n > 0
          /\ rlog[i].path \in DOMAIN fs_files
          /\ Len(fs_files[rlog[i].path]) = rlog[i].n

\* C12: when the handler has ended, without cancellation, on a stream in
\* which a file's payload stops short of the size its FILE header declared,
\* the receiver has sent TRANSFER_ERROR
FileCutShort(i) ==
    /\ rlog[i].kind = "FILE"
    /\ rlog[i].n > 0
    /\ \/ rlog[i].path \notin DOMAIN fs_files
       \/ Len(fs_files[rlog[i].path]) < rlog[i].n

C12_TruncatedFileGetsError ==
    (rh.pc = "done" /\ ~r_cancel /\ \E i \in DOMAIN rlog : FileCutShort(i))
        => rh.reply = "ERROR"

\* C13: once END_TRANSFER was processed and the connection is not cancelled,
\* the socket is closed only after a reply was sent, and exactly one reply
\* (TRANSFER_COMPLETE_OK or TRANSFER_ERROR) is ever on the connection
SocketCloses == ~sock_closed /\ sock_closed'

HandshakeReturns == sh.pc = "wait" /\ sh'.pc = "finally"

\* C14: perform_folder_handshake_client always terminates, whatever the peer
\* does: once called it returns, and it returns true exactly when the
\* response read so far holds HANDSHAKE_COMPLETE_OK_SIGNAL.
C14_HandshakeTerminates ==
    /\ (sh.pc = "handshake") ~> (sh.pc \in {"finally", "done"})
    /\ [][HandshakeReturns =>
             (sh'.transfer_success <=>
                  Contains(sh'.response_buffer, HANDSHAKE_COMPLETE_OK_SIGNAL))]_vars

\* C15: send_folder_task reports success only if the walk completed without
\* cancellation or error, END_TRANSFER and then the request were sent, and the
\* response held HANDSHAKE_COMPLETE_OK_SIGNAL; otherwise transfer_success is
\* false and the report is failure or cancellation.
C15_SuccessOnlyAfterWalkEndAndOk ==
    sh.transfer_success =>
        /\ sh.walk_completed_naturally /\ ~sh.is_cancelled /\ sh.exc = "none"
        /\ sh.i = Len(WalkSteps(source)) + 1
        /\ EndsWith(wire, end_transfer_header \o HANDSHAKE_REQUEST_SIGNAL)
        /\ Contains(sh.response_buffer, HANDSHAKE_COMPLETE_OK_SIGNAL)

\* send_folder_task has finished and reported success
C15_Witness == sh.pc = "done" /\ sh.transfer_success

\* C16: on one connection the sender emits the root FOLDER header first, the
\* request only directly after END_TRANSFER, and nothing after the request;
\* what follows END_TRANSFER on the connection is the request alone.
C16_SenderOrder ==
    /\ [](wire # << >> => StartsWith(wire, root_header(source)))
    /\ [][RequestSent => EndsWith(wire, end_transfer_header)]_vars
    /\ [][wire' # wire =>
             \/ RequestSent /\ wire' = wire \o HANDSHAKE_REQUEST_SIGNAL
             \/ sh.pc \in {"connect", "walk", "chunk", "end"}
                   /\ ~sh.walk_completed_naturally]_vars

\* the request has been sent, directly behind END_TRANSFER
C16_Witness ==
    /\ sh.pc = "wait"
    /\ EndsWith(wire, end_transfer_header \o HANDSHAKE_REQUEST_SIGNAL)
    /\ sh.items_sent_count > 0

\* END_TRANSFER has been sent
EndTransferSent ==
    sh.walk_completed_naturally /\ sh.pc \in {"handshake", "wait", "finally", "done"}

\* C17: whenever the sender has sent END_TRANSFER, the totals declared in
\* TOTAL_INFO match the stream: the count is the number of FOLDER and FILE
\* headers sent, the root header included, and the size is the sum of the
\* sizes in the FILE headers sent.
C17_TotalsMatchStream ==
    EndTransferSent =>
        /\ 1 + sh.items_sent_count = total_item_count(source)
        /\ sh.file_sizes_sent = total_folder_size(source)

(***************************************************************************)
(* Claims about handle_client_connection, under SpecFile.                  *)
(***************************************************************************)

\* C18: in the single-file receiver, when the connection is lost or the
\* token is set before filesize bytes have been written, the transfer ends
\* as failed and the partially written destination file does not exist when
\* the handler returns.
C18_PartialSingleFileRemoved ==
    (fh.pc = "done" /\ fh.file_path # NoPath /\ fh.received_bytes < fh.filesize) =>
        /\ ~fh.transfer_success /\ fh.is_cancelled
        /\ ~exists(fh.file_path)

\* the peer closed after one of two bytes had been written
C18_Witness ==
    /\ fh.pc = "done" /\ fh.file_path # NoPath
    /\ 0 < fh.received_bytes /\ fh.received_bytes < fh.filesize
    /\ peer_closed /\ ~r_cancel

(***************************************************************************)
(* Claims about the accept loop, under SpecSrv.                            *)
(***************************************************************************)

\* the sniff on a connection that delivers no byte: the loop leaves "sniff"
SniffWithoutBytes == srv_pc = "sniff" /\ WireAvail = 0 /\ srv_pc' # "sniff"

\* C19: when the sniff read on a newly accepted connection times out, is
\* reset or returns no bytes, the dispatcher closes that connection, starts no
\* handler for it and is back at the top of the accept loop; the loop never
\* ends.
C19_SniffFailureClosesAndContinues ==
    /\ [][SniffWithoutBytes =>
             (sock_closed' /\ handlers' = handlers /\ srv_pc' = "check")]_vars
    /\ [](srv_pc \in {"check", "accept", "sniff"})
    /\ [][srv_pc = "check" /\ ~is_transfer_active /\ srv_pc' # srv_pc => srv_pc' = "accept"]_vars

\* a second connection is accepted after the sniff on the first one failed
\* and no handler was ever started
C19_Witness ==
    /\ srv_pc = "sniff" /\ pending = MaxConn - 2 /\ handlers = << >>

\* C20: after any handler outcome the accept loop keeps running and
\* is_transfer_active eventually returns to false: from some point on it is
\* false whenever no handler runs, a connection waiting while no handler runs
\* is eventually accepted, and an accepted connection is dispatched.
C20_FlagReturnsAndLoopAccepts ==
    /\ [](srv_pc \in {"check", "accept", "sniff"})
    /\ <>[](Running = {} => ~is_transfer_active)
    /\ \A n \in 1..MaxConn :
          (pending = n /\ Running = {}) ~> (pending < n \/ Running # {})
    /\ (srv_pc = "sniff") ~> (srv_pc = "check")

\* every connection has been served, its handler has ended, and the flag is
\* false again
C20_Witness ==
    /\ pending = 0 /\ Len(handlers) = MaxConn /\ Running = {}
    /\ gui_queue = << >> /\ ~is_transfer_active

(***************************************************************************)
(* Claims about item paths and the file data phase of the folder receiver. *)
(***************************************************************************)

\* the slash-separated path has a segment equal to '.' or '..'
HasDotSegment(raw) ==
    \E j \in DOMAIN Split(raw, "/") : Split(raw, "/")[j] \in { << "." >>, << ".", "." >> }

\* C21: the folder receiver aborts the connection for every FOLDER or FILE
\* header whose slash-separated path has a segment equal to '.' or '..',
\* wherever the segment occurs: no such header is ever accepted.
C21_DotSegmentsRejected ==
    \A i \in LogKinds({"ROOT", "FOLDER", "FILE"}) : ~HasDotSegment(rlog[i].raw)

\* the file data phase ends and the next item header is awaited
FilePhaseEnds ==
    /\ rh.current_state = STATE_RECEIVING_FILE_DATA
    /\ rh'.current_state = STATE_WAITING_FOR_ITEM_HEADER

\* C22: while a file of declared size > 0 has received fewer than its
\* declared bytes the folder receiver parses no header and accepts none; the
\* state returns to STATE_WAITING_FOR_ITEM_HEADER only when exactly the
\* declared number of bytes has been written and the file is closed.
C22_NoHeaderWhileFileIncomplete ==
    /\ [](rh.current_file_handle =>
             /\ rh.current_state = STATE_RECEIVING_FILE_DATA
             /\ rh.current_file_bytes_expected > 0
             /\ rh.current_file_bytes_received < rh.current_file_bytes_expected
             /\ rh.pc \notin HeaderPcs)
    /\ [][rlog' # rlog => ~rh.current_file_handle]_vars
    /\ [][FilePhaseEnds =>
             /\ ~rh'.current_file_handle
             /\ rh'.current_file_bytes_received = rh.current_file_bytes_expected
             /\ Len(fs_files'[rh.current_file_path]) = rh.current_file_bytes_expected]_vars

\* a file of two bytes was completed from more than one piece and a later
\* header has been accepted
C22_Witness ==
    \E i \in LogKinds({"FILE"}) :
        /\ rlog[i].n = 2 /\ i < Len(rlog)
        /\ rlog[i].path \in DOMAIN fs_files /\ Len(fs_files[rlog[i].path]) = 2
        /\ ~rh.current_file_handle

(***************************************************************************)
(* Claims about read_header_from_socket, under SpecHdr.                    *)
(***************************************************************************)

\* the token of the stream: the bytes before the first separator
HdrToken == Take(wire, Find(wire, HEADER_SEPARATOR) - 1)

\* C23: for any token without the separator and any way the bytes
\* token|rest are split between the carry-over buffer and successive reads,
\* read_header_from_socket returns the token (it does not raise), and the
\* leftover is exactly the obtained bytes that follow the first separator.
C23_SplitIndependent ==
    /\ fh.exc = "none"
    /\ fh.pc = "filesize" =>
          /\ fh.filename_from_header = HdrToken
          /\ fh.current_remaining_buffer = Slice(wire, Len(HdrToken) + 2, recvd)

(***************************************************************************)
(* Claims about the first header and the item states of the folder         *)
(* receiver, under SpecAdv.                                                *)
(***************************************************************************)

\* the stream opens with a folder-protocol header whose type is not FOLDER
FirstHeaderNotFolder ==
    /\ StartsWith(wire, FOLDER_PROTOCOL_PREFIX \o Sep)
    /\ Len(Split(wire, HEADER_SEPARATOR)) > 2
    /\ Split(wire, HEADER_SEPARATOR)[2] # FOLDER_HEADER_TYPE_FOLDER

RawRequestPending ==
    /\ rh.current_state = STATE_WAITING_FOR_ITEM_HEADER
    /\ rh.received_buffer \o Drop(wire, recvd) = HANDSHAKE_REQUEST_SIGNAL

\* C25: when the receiver awaits an item header and the next bytes of the
\* stream are the raw handshake request (no separator after it), the
\* receiver recognises the request and goes on to send a reply: unless it is
\* cancelled, it does not fail with the request unconsumed.
C25_RawRequestRecognised ==
    (RawRequestPending /\ ~r_cancel) => rh.exc = "none"

(***************************************************************************)
(* Claims about the files the receivers write, under SpecSave.             *)
(***************************************************************************)

IsPrefix(a, b) == Len(a) <= Len(b) /\ SubSeq(b, 1, Len(a)) = a

\* the file a handler holds open for writing
OpenPaths ==
    (IF rh.current_file_handle THEN {rh.current_file_path} ELSE {})
    \cup (IF fh.file_handle THEN {fh.file_path} ELSE {})

Completed(i) ==
    /\ rlog[i].kind = "FILE"
    /\ i < Len(rlog) \/ rh.current_state # STATE_RECEIVING_FILE_DATA

EmptyFileAccepted ==
    /\ Len(rlog') = Len(rlog) + 1
    /\ rlog'[Len(rlog')].kind = "FILE"
    /\ rlog'[Len(rlog')].n = 0

\* C30: accepting a FILE header of size 0 creates an empty file, adds one
\* to items_received_count, leaves received_bytes_total unchanged, takes no
\* byte of the stream after the header, and leaves the receiver awaiting the
\* next item header with no file open.
C30_EmptyFile ==
    [][EmptyFileAccepted =>
          LET e == rlog'[Len(rlog')]
          IN  /\ ~exists(e.path)
              /\ e.path \in DOMAIN fs_files' /\ fs_files'[e.path] = << >>
              /\ rh'.items_received_count = rh.items_received_count + 1
              /\ rh'.received_bytes_total = rh.received_bytes_total
              /\ recvd' = recvd
              /\ rh'.received_buffer = Slice(wire, e.off + 1, recvd)
              /\ rh'.current_state = STATE_WAITING_FOR_ITEM_HEADER
              /\ ~rh'.current_file_handle]_vars

C30_Witness ==
    /\ rlog # << >>
    /\ rlog[Len(rlog)].kind = "FILE" /\ rlog[Len(rlog)].n = 0
    /\ rlog[Len(rlog)].path \in DOMAIN fs_files
    /\ fs_files[rlog[Len(rlog)].path] = << >>
    /\ rh.items_received_count = 3 /\ rh.received_bytes_total = 0
    /\ rh.current_state = STATE_WAITING_FOR_ITEM_HEADER
    /\ StartsWith(rh.received_buffer, FOLDER_PROTOCOL_PREFIX)

(***************************************************************************)
(* Claims about server discovery, under SpecDisc.                          *)
(***************************************************************************)

\* C28: every response the discovery listener sends answers a datagram whose
\* text is the discovery message, is sent while the TCP server's listening
\* socket is bound, and carries the port that socket is bound to; none is
\* sent before the bind or after the server has closed its socket.
C28_ResponseOnlyWhileBound ==
    \A i \in DOMAIN disc.sent :
        /\ Strip(decode_ignore(disc.sent[i].request)) = DISCOVERY_MESSAGE
        /\ disc.sent[i].tcp_socket = "bound"
        /\ disc.sent[i].response
             = SERVER_RESPONSE_BASE \o << " " >> \o IntToStr(disc.sent[i].bound_port)

(***************************************************************************)
(* Claims about the client's discovery attempt, under SpecDiscover.        *)
(***************************************************************************)

AllDigits(s) == s # << >> /\ \A i \in DOMAIN s : s[i] \in DigitSet

\* the response format "<SERVER_RESPONSE_BASE> <port>"
WellFormedResponse(payload) ==
    LET parts == SplitWs(Strip(decode_ignore(payload)))
    IN  /\ Len(parts) = 2
        /\ parts[1] = SERVER_RESPONSE_BASE
        /\ AllDigits(parts[2])

ResponsePort(payload) == DigitsVal(SplitWs(Strip(decode_ignore(payload)))[2], 0)

\* C29: a discovery attempt broadcasts at most once, raises nothing, and
\* when it has returned: a server it reports is the sender and port of the
\* first well-formed response among the datagrams it received, every
\* datagram before that one (and every datagram, when it reports no server)
\* being malformed or irrelevant and ignored.
C29_FirstWellFormedResponse ==
    /\ dclient.broadcasts <= 1
    /\ ~dclient.raised
    /\ dclient.pc = "done" =>
          IF dclient.found_server_info = NoServerInfo
          THEN \A i \in DOMAIN dclient.seen : ~WellFormedResponse(dclient.seen[i].payload)
          ELSE \E i \in DOMAIN dclient.seen :
                  /\ WellFormedResponse(dclient.seen[i].payload)
                  /\ dclient.found_server_info
                       = [ip |-> dclient.seen[i].ip,
                          port |-> ResponsePort(dclient.seen[i].payload)]
                  /\ \A j \in 1..(i - 1) : ~WellFormedResponse(dclient.seen[j].payload)

(***************************************************************************)
(* Claims about repeated headers, under SpecDup.                           *)
(***************************************************************************)
\* the receiver is about to process the path of a FOLDER item header whose
\* path string it has already accepted in a FOLDER header (the root header
\* or an item header) on this connection
SameFolderHeaderAgain ==
    /\ rh.pc = "path" /\ HasSep(rh.received_buffer)
    /\ rh.current_state = STATE_WAITING_FOR_ITEM_HEADER
    /\ rh.header_type_segment = FOLDER_HEADER_TYPE_FOLDER
    /\ \E i \in DOMAIN rlog :
          /\ rlog[i].kind \in {"ROOT", "FOLDER"}
          /\ rlog[i].raw = read_header(rh.received_buffer).token

\* the directory the earlier header with the same path string stood for
EarlierFolderPath ==
    LET token == read_header(rh.received_buffer).token
        i == CHOOSE j \in DOMAIN rlog :
                 rlog[j].kind \in {"ROOT", "FOLDER"} /\ rlog[j].raw = token
    IN  rlog[i].path

\* C31: a FOLDER header issued a second time for the same path on one
\* connection does not abort the connection (the handler goes on to the
\* next header), and leaves the directories and the files of the receiver
\* as they were: one directory at that path, its content untouched.
C31_RepeatedFolderHeader ==
    [][ (SameFolderHeaderAgain /\ rh' # rh) =>
            /\ rh'.exc = "none" /\ rh'.pc = "loop"
            /\ EarlierFolderPath \in fs_dirs'
            /\ fs_dirs' = fs_dirs /\ fs_files' = fs_files ]_vars

(***************************************************************************)
(* Claims about two transfers received one after the other, under SpecTwo. *)
(***************************************************************************)
\* the handler of the second connection is running or has ended
SecondTransfer == pending = 0 /\ Len(handlers) = 2

\* C32: a cancellation requested for the first received transfer affects
\* only that transfer: the handler of the next connection accepted by the
\* same server, during which no cancellation is requested, never observes
\* the token (it does not end cancelled), and when the peer sends a complete
\* stream and keeps the connection open until the reply, a handler that has
\* ended has succeeded.
C32_CancelAffectsOneTransfer ==
    SecondTransfer =>
        /\ ~(rh.is_cancelled /\ rh.exc \in {"none", "CancelledError"})
        /\ (rh.pc = "done" /\ rh.exc = "none") => rh.transfer_success

(***************************************************************************)
(* Claims about the dispatch of a connection, under SpecAdv.               *)
(***************************************************************************)
\* the connection's byte stream begins with the folder protocol prefix frame
FolderStream == StartsWith(wire, FOLDER_PROTOCOL_PREFIX \o Sep)

\* C33: a connection whose byte stream begins with the prefix frame FDR_V1|
\* is never handed to the single-file receiver, however many of those bytes
\* the first read of the sniff returned: once dispatched, it is with the
\* folder receiver.
C33_FolderStreamToFolderReceiver ==
    FolderStream => rh.pc \notin {"file_handler"}

(***************************************************************************)
(* Claims about the single-file receiver's destination, under SpecName.    *)
(***************************************************************************)
\* C34: whatever filename frame the peer sends (an empty name and a name
\* ending in a slash included), every file the single-file receiver creates
\* or writes is strictly inside its base directory received_files, and a
\* transfer it rejects has created no file.
C34_SingleFileInsideBase ==
    /\ \A p \in DOMAIN fs_files : StrictlyInside(single_file_base_abs, p)
    /\ fh.file_handle => StrictlyInside(single_file_base_abs, fh.file_path)
    /\ (fh.pc = "done" /\ ~fh.transfer_success) =>
          DOMAIN fs_files \subseteq {OldSingleFile}

(***************************************************************************)
(* Claims about the sender's report and the receiver's verification,       *)
(* under SpecBoth.                                                         *)
(***************************************************************************)
\* the receiver processed END_TRANSFER with its item count and byte total
\* equal to the totals a TOTAL_INFO header declared
ReceiverVerified ==
    \E i \in LogKinds({"END"}) : \E j \in LogKinds({"TOTAL_INFO"}) :
        /\ j < i
        /\ rlog[i].n = rlog[j].n /\ rlog[i].m = rlog[j].m

\* C35: whenever the folder sender reports success, the receiver on that
\* connection has processed END_TRANSFER with items_received_count and
\* received_bytes_total equal to the totals of TOTAL_INFO and has answered
\* TRANSFER_COMPLETE_OK; the sender reports no success for a transfer the
\* receiver found incomplete, aborted or has not finished.
C35_SuccessOnlyIfVerified ==
    sh.transfer_success =>
        /\ ReceiverVerified
        /\ rh.reply = "OK" /\ rh.exc = "none"
        /\ rh.items_received_count = rh.total_expected_items
        /\ rh.received_bytes_total = rh.total_expected_size

\* the sender has reported success for a folder with a file of one byte or more
C35_Witness ==
    /\ sh.pc = "done" /\ sh.transfer_success /\ rh.reply = "OK"
    /\ \E i \in LogKinds({"FILE"}) : rlog[i].n > 0

(***************************************************************************)
(* Claims about the header type in AwaitingItemHeader, under SpecAdv.      *)
(***************************************************************************)
\* the receiver, awaiting an item header, has read the protocol prefix and
\* is about to look at a type segment that is neither FOLDER, FILE nor
\* END_TRANSFER
UnknownItemType ==
    /\ rh.pc = "type" /\ HasSep(rh.received_buffer)
    /\ rh.current_state = STATE_WAITING_FOR_ITEM_HEADER
    /\ read_header(rh.received_buffer).ok
    /\ read_header(rh.received_buffer).token
          \notin ItemTypes \cup {FOLDER_HEADER_TYPE_END_TRANSFER}

\* C36: in AwaitingItemHeader a header with the protocol prefix and a type
\* other than FOLDER, FILE or END_TRANSFER is a fatal protocol error: the
\* step that looks at the type aborts the connection, the handler does not
\* go on to parse the next frame.
C36_UnknownTypeAborts ==
    [][ (UnknownItemType /\ rh' # rh) =>
            (rh'.exc = "ValueError" /\ rh'.pc = "finally") ]_vars

(***************************************************************************)
(* Claims about cancellation of a running folder receiver, under           *)
(* SpecAdvLive.                                                            *)
(***************************************************************************)
\* the folder handler's thread has been started and has not ended
FolderReceiverRunning ==
    rh.pc \notin {"accepted", "refused", "file_handler", "done"}

\* the handler has ended: socket closed, on_transfer_finished scheduled
FolderReceiverTerminated ==
    /\ rh.pc = "done" /\ sock_closed
    /\ \E i \in DOMAIN gui_queue : gui_queue[i] = "on_transfer_finished"

\* the handler has read the token as set: at the test of the main loop, in
\* the data loop, or in read_header_from_socket
TokenObserved ==
    r_cancel /\ (rh.is_cancelled \/ rh.exc = "CancelledError")

FileInProgress(i) ==
    /\ i = Len(rlog) /\ rlog[i].kind = "FILE" /\ rlog[i].n > 0
    /\ rh.current_state = STATE_RECEIVING_FILE_DATA

\* the items completed so far on the connection: the root, every FOLDER
\* header processed, every FILE of zero bytes, every other FILE whose
\* declared bytes are all written and whose handle is closed
ItemsCompleted ==
    Cardinality({i \in LogKinds({"ROOT", "FOLDER", "FILE"}) : ~FileInProgress(i)})

\* C38: items_received_count always equals the number of items completed so
\* far on the connection; a FILE of one byte or more is counted only once
\* all of its declared bytes have been written and its handle closed.
C38_CountIsCompletedItems ==
    rh.items_received_count = ItemsCompleted


====
